---------------------------- MODULE Spec2Model ----------------------------
(***************************************************************************)
(* Density-field simulation and subdivision geometry of the density        *)
(* spreadsheet (src/utils/density.ts, src/utils/subdivision.ts,            *)
(* src/utils/interpolation.ts), and the DensitySpreadsheet component that  *)
(* drives them: its pointer handlers, its render callback and the effect   *)
(* that requests and cancels animation frames.                             *)
(*                                                                         *)
(* JavaScript numbers are modelled as exact rationals [n, d] in lowest     *)
(* terms, extended with NaN (0/0) and the two infinities (1/0, -1/0), so   *)
(* that +, -, *, / and the comparisons behave as in the source for every   *)
(* value the model draws.  Signed zeros are not distinguished.  Math.exp   *)
(* is a library function of finite precision: it is modelled by its value *)
(* rounded to a multiple of 1/ExpOne on a grid of exponents (ExpTable).    *)
(***************************************************************************)
EXTENDS Integers, Sequences, FiniteSets, TLC

VARIABLES
    config,       \* the Config snapshot the calls below are made with
    rateCalls,    \* calls of calculateIncreaseRate made so far, with results
    decayCalls,   \* calls of calculateTimeBasedDecayMultiplier, with results
    levelCalls,   \* calls of densityToSubdivisionLevel, with results
    density,      \* a cell's density, advanced by updateCellDensity
    lastUpdate,   \* arguments and result of the last updateCellDensity call
    updates,      \* number of updateCellDensity calls made
    frame,        \* the subdivideCell invocation under observation
    velocityCalls,      \* calls of calculateVelocityMultiplier, with results
    interpCalls,        \* calls of interpolatePoints, with results
    now,                \* the clock (performance.now / frame timestamps), in ms
    lastFrameTime,      \* lastFrameTimeRef.current
    lastMouseMoveTime,  \* lastMouseMoveTimeRef.current
    lastMousePos,       \* lastMousePosRef.current
    mousePos,           \* the component's mousePos state
    velocityState,      \* the component's cursorVelocity state
    cellDensities,      \* the density field: cell key -> CellDensityState
    lastFrame,          \* what the last render callback was given and did
    steps,              \* number of events the component has handled
    canvasSize,         \* the component's canvasSize state
    mounted,            \* the component is mounted (its canvas exists)
    animationFrame,     \* frame requests: the callbacks pending in the browser,
                        \* animationFrameRef.current, and the next request id
    inFrame,            \* the render callback being executed, statement by statement
    lastEvent           \* the last pointer event handled, and what it found

\* The state of the mounted component and its render loop.
loopVars ==
    <<now, lastFrameTime, lastMouseMoveTime, lastMousePos, mousePos, velocityState,
      cellDensities, lastFrame, steps, canvasSize, mounted, animationFrame, inFrame,
      lastEvent>>

vars ==
    <<config, rateCalls, decayCalls, levelCalls, density, lastUpdate, updates, frame,
      velocityCalls, interpCalls, loopVars>>

---------------------------------------------------------------------------
(* Bounds of the model *)

MaxLoggedCalls == 2      \* calls of a pure function kept side by side
MaxDistanceSteps == 5    \* distances are 0 .. MaxDistanceSteps * DistanceStep
MaxTimeSteps == 6        \* times are 0 .. MaxTimeSteps * TimeStepMs
MaxUpdates == 2          \* consecutive updateCellDensity calls on one cell
MaxLevel == 6            \* largest maxLevel drawn for densityToSubdivisionLevel
MaxTargetLevel == 3      \* largest target level drawn for subdivideCell
DensityGrain == 12       \* densities drawn are k / DensityGrain

DistanceStep == 50       \* pixels between two drawn distances
TimeStepMs == 500        \* milliseconds between two drawn timestamps
LongIdleMs == 120000     \* a cell left alone for two minutes
MaxLoopEvents == 4       \* pointer events and frames handled by the component
IdleClockLimitMs == 17000    \* the clock stops 13 s after the pointer has left
HoverClockLimitMs == 3000    \* the clock stops 3 s after the pointer has come to rest
MaxAspectLevel == 8      \* largest target level drawn for the shapes of deep cells

---------------------------------------------------------------------------
(* JavaScript numbers *)

Abs(i) == IF i < 0 THEN -i ELSE i

Sign(i) == IF i < 0 THEN -1 ELSE IF i > 0 THEN 1 ELSE 0

RECURSIVE GCD(_, _)
GCD(a, b) == IF b = 0 THEN a ELSE GCD(b, a % b)

\* The rational n/d, d > 0, in lowest terms.
Num(n, d) ==
    LET g == GCD(Abs(n), d)
    IN  [n |-> n \div g, d |-> d \div g]

Int2Num(i) == [n |-> i, d |-> 1]

Zero == Int2Num(0)
One == Int2Num(1)
Two == Int2Num(2)
NaN == [n |-> 0, d |-> 0]
Infinity == [n |-> 1, d |-> 0]
NegInfinity == [n |-> -1, d |-> 0]

IsNaN(a) == a.d = 0 /\ a.n = 0
IsFinite(a) == a.d # 0

Neg(a) == [n |-> -a.n, d |-> a.d]

Add(a, b) ==
    IF IsFinite(a) /\ IsFinite(b)
    THEN LET g == GCD(a.d, b.d)
         IN  Num(a.n * (b.d \div g) + b.n * (a.d \div g), (a.d \div g) * b.d)
    ELSE IF IsNaN(a) \/ IsNaN(b) THEN NaN
    ELSE IF IsFinite(a) THEN b
    ELSE IF IsFinite(b) THEN a
    ELSE IF a.n = b.n THEN a ELSE NaN

Sub(a, b) == Add(a, Neg(b))

Mul(a, b) ==
    IF IsFinite(a) /\ IsFinite(b)
    THEN LET g1 == GCD(Abs(a.n), b.d)
             g2 == GCD(Abs(b.n), a.d)
         IN  Num((a.n \div g1) * (b.n \div g2), (a.d \div g2) * (b.d \div g1))
    ELSE IF IsNaN(a) \/ IsNaN(b) \/ a.n = 0 \/ b.n = 0 THEN NaN
    ELSE [n |-> Sign(a.n) * Sign(b.n), d |-> 0]

Div(a, b) ==
    IF IsNaN(a) \/ IsNaN(b) THEN NaN
    ELSE IF ~IsFinite(b) THEN (IF IsFinite(a) THEN Zero ELSE NaN)
    ELSE IF b.n = 0 THEN (IF a.n = 0 THEN NaN ELSE [n |-> Sign(a.n), d |-> 0])
    ELSE Mul(a, [n |-> Sign(b.n) * b.d, d |-> Abs(b.n)])

\* a < b, a <= b, a >= b, a > b, a === b: all false when an operand is NaN.
Lt(a, b) == ~IsNaN(a) /\ ~IsNaN(b) /\ a # b /\ Sub(a, b).n < 0
Eq(a, b) == ~IsNaN(a) /\ a = b
Le(a, b) == Eq(a, b) \/ Lt(a, b)
Ge(a, b) == Le(b, a)
Gt(a, b) == Lt(b, a)

MathMax(a, b) == IF IsNaN(a) \/ IsNaN(b) THEN NaN ELSE IF Lt(a, b) THEN b ELSE a
MathMin(a, b) == IF IsNaN(a) \/ IsNaN(b) THEN NaN ELSE IF Lt(b, a) THEN b ELSE a

MathFloor(a) == IF IsFinite(a) THEN Int2Num(a.n \div a.d) ELSE a

MathCeil(a) == IF IsFinite(a) THEN Int2Num(-((-a.n) \div a.d)) ELSE a

\* Integer square root by bisection: the r with r*r <= n < (r+1)*(r+1).
RECURSIVE ISqrtIn(_, _, _)
ISqrtIn(n, lo, hi) ==
    IF hi - lo <= 1 THEN lo
    ELSE LET mid == (lo + hi) \div 2
         IN  IF mid * mid <= n THEN ISqrtIn(n, mid, hi) ELSE ISqrtIn(n, lo, mid)

\* Math.sqrt: exact on the perfect squares, which are the only arguments the
\* model draws (distances along an axis or along a 3-4-5 triangle).
MathSqrt(a) ==
    IF IsNaN(a) \/ a.n < 0 THEN NaN
    ELSE IF ~IsFinite(a) THEN a
    ELSE Num(ISqrtIn(a.n * a.d, 0, a.n * a.d + 1), a.d)

\* Math.exp has finite precision.  Its result is modelled on a grid: the
\* exponent is taken in quarters, and exp(-k/4) is the table's k-th entry over
\* ExpOne, i.e. round(4096 * e^(-k/4)).  Past the table the result is 0: the
\* value is below half a unit in the last place of 1, as exp(-x) is for
\* x > 54 ln 2 = 37.43 in IEEE doubles, where 1 - exp(-x) evaluates to exactly 1.
ExpOne == 4096
ExpGrid == 4
ExpTable ==
    << 4096, 3190, 2484, 1935, 1507, 1174, 914, 712, 554, 432,
       336, 262, 204, 159, 124, 96, 75, 58, 46, 35,
       28, 21, 17, 13, 10, 8, 6, 5, 4, 3,
       2, 2, 1, 1, 1, 1, 1 >>

ExpEntry(k) == IF k + 1 <= Len(ExpTable) THEN ExpTable[k + 1] ELSE 0

MathExp(a) ==
    IF IsNaN(a) THEN NaN
    ELSE IF a = Infinity THEN Infinity
    ELSE IF a = NegInfinity THEN Zero
    ELSE IF a.n <= 0 THEN Num(ExpEntry(((-a.n) * ExpGrid) \div a.d), ExpOne)
    ELSE LET e == ExpEntry((a.n * ExpGrid) \div a.d)
         IN  IF e = 0 THEN Infinity ELSE Num(ExpOne, e)

---------------------------------------------------------------------------
(* src/utils/subdivision.ts: geometry primitives *)

Point(x, y) == [x |-> x, y |-> y]

CellBounds(x, y, width, height) == [x |-> x, y |-> y, width |-> width, height |-> height]

calculateDistance(p1, p2) ==
    LET dx == Sub(p1.x, p2.x)
        dy == Sub(p1.y, p2.y)
    IN  MathSqrt(Add(Mul(dx, dx), Mul(dy, dy)))

getCellCenter(cell) ==
    Point(Add(cell.x, Div(cell.width, Two)), Add(cell.y, Div(cell.height, Two)))

getSubdivisionDirection_TieVertical(width, height) ==
    IF Ge(width, height) THEN "vertical" ELSE "horizontal"

getSubdivisionDirection_Inverted(width, height) ==
    IF Gt(width, height) THEN "horizontal" ELSE "vertical"

getSubdivisionDirection(width, height) ==
    IF Gt(width, height) THEN "vertical" ELSE "horizontal"

subdivideCellOnce_NoOffset(cell, direction) ==
    IF direction = "vertical"
    THEN LET halfWidth == Div(cell.width, Two)
         IN  << CellBounds(cell.x, cell.y, halfWidth, cell.height),
                CellBounds(cell.x, cell.y, halfWidth, cell.height) >>
    ELSE LET halfHeight == Div(cell.height, Two)
         IN  << CellBounds(cell.x, cell.y, cell.width, halfHeight),
                CellBounds(cell.x, cell.y, cell.width, halfHeight) >>

subdivideCellOnce_KeepsFields(cell, direction) ==
    IF direction = "vertical"
    THEN LET halfWidth == Div(cell.width, Two)
         IN  << [cell EXCEPT !.width = halfWidth],
                [cell EXCEPT !.x = Add(cell.x, halfWidth), !.width = halfWidth] >>
    ELSE LET halfHeight == Div(cell.height, Two)
         IN  << [cell EXCEPT !.height = halfHeight],
                [cell EXCEPT !.y = Add(cell.y, halfHeight), !.height = halfHeight] >>

subdivideCellOnce(cell, direction) ==
    IF direction = "vertical"
    THEN LET halfWidth == Div(cell.width, Two)
         IN  << CellBounds(cell.x, cell.y, halfWidth, cell.height),
                CellBounds(Add(cell.x, halfWidth), cell.y, halfWidth, cell.height) >>
    ELSE LET halfHeight == Div(cell.height, Two)
         IN  << CellBounds(cell.x, cell.y, cell.width, halfHeight),
                CellBounds(cell.x, Add(cell.y, halfHeight), cell.width, halfHeight) >>

RECURSIVE subdivideCell_LevelOffByOne(_, _, _)
subdivideCell_LevelOffByOne(cell, targetLevel, currentLevel) ==
    IF currentLevel > targetLevel THEN << cell >>
    ELSE LET direction == getSubdivisionDirection(cell.width, cell.height)
             children == subdivideCellOnce(cell, direction)
             nextLevel == currentLevel + 1
         IN  subdivideCell_LevelOffByOne(children[1], targetLevel, nextLevel)
                 \o subdivideCell_LevelOffByOne(children[2], targetLevel, nextLevel)

RECURSIVE subdivideCell(_, _, _)
subdivideCell(cell, targetLevel, currentLevel) ==
    IF currentLevel >= targetLevel THEN << cell >>
    ELSE LET direction == getSubdivisionDirection(cell.width, cell.height)
             children == subdivideCellOnce(cell, direction)
             nextLevel == currentLevel + 1
         IN  subdivideCell(children[1], targetLevel, nextLevel)
                 \o subdivideCell(children[2], targetLevel, nextLevel)


\* The line pushed for the split of currentCell (lines 219-239).
subdivisionLine(currentCell, direction, level) ==
    IF direction = "vertical"
    THEN LET midX == Add(currentCell.x, Div(currentCell.width, Two))
         IN  [ x1 |-> midX, y1 |-> currentCell.y,
               x2 |-> midX, y2 |-> Add(currentCell.y, currentCell.height),
               level |-> level ]
    ELSE LET midY == Add(currentCell.y, Div(currentCell.height, Two))
         IN  [ x1 |-> currentCell.x, y1 |-> midY,
               x2 |-> Add(currentCell.x, currentCell.width), y2 |-> midY,
               level |-> level ]

RECURSIVE subdivideRecursive_FirstChildOnly(_, _, _)
subdivideRecursive_FirstChildOnly(currentCell, currentLevel, targetLevel) ==
    IF currentLevel >= targetLevel THEN << >>
    ELSE LET direction == getSubdivisionDirection(currentCell.width, currentCell.height)
             nextLevel == currentLevel + 1
             children == subdivideCellOnce(currentCell, direction)
         IN  << subdivisionLine(currentCell, direction, nextLevel) >>
                 \o subdivideRecursive_FirstChildOnly(children[1], nextLevel, targetLevel)
                 \o subdivideRecursive_FirstChildOnly(children[1], nextLevel, targetLevel)

\* subdivideRecursive of getSubdivisionLines: the lines it pushes, in order.
RECURSIVE subdivideRecursive(_, _, _)
subdivideRecursive(currentCell, currentLevel, targetLevel) ==
    IF currentLevel >= targetLevel THEN << >>
    ELSE LET direction == getSubdivisionDirection(currentCell.width, currentCell.height)
             nextLevel == currentLevel + 1
             children == subdivideCellOnce(currentCell, direction)
         IN  << subdivisionLine(currentCell, direction, nextLevel) >>
                 \o subdivideRecursive(children[1], nextLevel, targetLevel)
                 \o subdivideRecursive(children[2], nextLevel, targetLevel)

getSubdivisionLines(cell, targetLevel) == subdivideRecursive(cell, 0, targetLevel)

---------------------------------------------------------------------------
(* src/components/DensitySpreadsheet.tsx: the base grid *)

HEADER_WIDTH == 45
HEADER_HEIGHT == 24

\* The base cell of getBaseCells at column col and row row.
BaseCell(cfg, col, row) ==
    [ x |-> Add(Int2Num(HEADER_WIDTH), Mul(Int2Num(col), cfg.baseCellWidth)),
      y |-> Add(Int2Num(HEADER_HEIGHT), Mul(Int2Num(row), cfg.baseCellHeight)),
      width |-> cfg.baseCellWidth,
      height |-> cfg.baseCellHeight,
      level |-> 0,
      baseX |-> col,
      baseY |-> row ]

---------------------------------------------------------------------------
(* src/utils/density.ts *)

createDefaultConfig ==
    [ baseCellWidth |-> Int2Num(80),
      baseCellHeight |-> Int2Num(24),
      columns |-> 26,
      rows |-> 30,
      increaseRate |-> Num(2, 5),
      decayRate |-> Num(1, 4),
      influenceRadius |-> Int2Num(200),
      increaseMultiplier |-> Num(4, 5),
      decayMultiplier |-> One,
      velocityInfluence |-> Int2Num(8),
      interpolationDensity |-> Int2Num(5),
      holdDuration |-> Num(3, 2),
      decayAcceleration |-> Int2Num(5),
      maxSubdivisionLevel |-> 6 ]

maxVelocity == 1000

calculateVelocityMultiplier_NoCap(velocity, velocityInfluence) ==
    IF Le(velocityInfluence, One) THEN One
    ELSE LET normalizedVelocity == Div(velocity, Int2Num(maxVelocity))
             curvedVelocity ==
                 Mul(Mul(normalizedVelocity, normalizedVelocity), normalizedVelocity)
         IN  Add(One, Mul(curvedVelocity, Sub(velocityInfluence, One)))

calculateVelocityMultiplier(velocity, velocityInfluence) ==
    IF Le(velocityInfluence, One) THEN One
    ELSE LET normalizedVelocity == MathMin(Div(velocity, Int2Num(maxVelocity)), One)
             curvedVelocity ==
                 Mul(Mul(normalizedVelocity, normalizedVelocity), normalizedVelocity)
         IN  Add(One, Mul(curvedVelocity, Sub(velocityInfluence, One)))

\* One evaluation of calculateIncreaseRate: the value returned, and whether the
\* division by influenceRadius (line 26) was executed on the way.
increaseRateCall_StrictGuard(distance, cfg, velocity) ==
    IF Gt(distance, cfg.influenceRadius)
    THEN [returned |-> Zero, divided |-> FALSE]
    ELSE LET falloff == Sub(One, Div(distance, cfg.influenceRadius))
             velocityMultiplier ==
                 calculateVelocityMultiplier(velocity, cfg.velocityInfluence)
         IN  [ returned |->
                   Mul(Mul(Mul(cfg.increaseRate, cfg.increaseMultiplier), falloff),
                       velocityMultiplier),
               divided |-> TRUE ]

increaseRateCall_RisingFalloff(distance, cfg, velocity) ==
    IF Ge(distance, cfg.influenceRadius)
    THEN [returned |-> Zero, divided |-> FALSE]
    ELSE LET falloff == Div(distance, cfg.influenceRadius)
             velocityMultiplier ==
                 calculateVelocityMultiplier(velocity, cfg.velocityInfluence)
         IN  [ returned |->
                   Mul(Mul(Mul(cfg.increaseRate, cfg.increaseMultiplier), falloff),
                       velocityMultiplier),
               divided |-> TRUE ]

increaseRateCall(distance, cfg, velocity) ==
    IF Ge(distance, cfg.influenceRadius)
    THEN [returned |-> Zero, divided |-> FALSE]
    ELSE LET falloff == Sub(One, Div(distance, cfg.influenceRadius))
             velocityMultiplier ==
                 calculateVelocityMultiplier(velocity, cfg.velocityInfluence)
         IN  [ returned |->
                   Mul(Mul(Mul(cfg.increaseRate, cfg.increaseMultiplier), falloff),
                       velocityMultiplier),
               divided |-> TRUE ]

calculateIncreaseRate(distance, cfg, velocity) ==
    increaseRateCall(distance, cfg, velocity).returned

calculateTimeBasedDecayMultiplier_NoHold(timeSincePainted, cfg) ==
    LET timeAfterHold == Sub(timeSincePainted, cfg.holdDuration)
    IN  Sub(One, MathExp(Div(Mul(Neg(timeAfterHold), cfg.decayAcceleration), Two)))

calculateTimeBasedDecayMultiplier_RisingExp(timeSincePainted, cfg) ==
    IF Lt(timeSincePainted, cfg.holdDuration) THEN Zero
    ELSE LET timeAfterHold == Sub(timeSincePainted, cfg.holdDuration)
         IN  Sub(One, MathExp(Div(Mul(timeAfterHold, cfg.decayAcceleration), Two)))

calculateTimeBasedDecayMultiplier(timeSincePainted, cfg) ==
    IF Lt(timeSincePainted, cfg.holdDuration) THEN Zero
    ELSE LET timeAfterHold == Sub(timeSincePainted, cfg.holdDuration)
             rawMultiplier ==
                 Sub(One, MathExp(Div(Mul(Neg(timeAfterHold), cfg.decayAcceleration), Two)))
         IN  rawMultiplier

\* The sum of calculateIncreaseRate over the cursor positions (lines 96-102).
RECURSIVE totalIncreaseRate(_, _, _, _)
totalIncreaseRate(cursorPositions, cellCenter, cfg, cursorVelocity) ==
    IF cursorPositions = << >> THEN Zero
    ELSE Add(calculateIncreaseRate(calculateDistance(Head(cursorPositions), cellCenter),
                                   cfg, cursorVelocity),
             totalIncreaseRate(Tail(cursorPositions), cellCenter, cfg, cursorVelocity))

densityAfterIncrease_Summed(currentDensity, cell, cursorPositions, deltaTime, cfg, cursorVelocity) ==
    IF Len(cursorPositions) > 0
    THEN LET cellCenter == getCellCenter(cell)
         IN  Add(currentDensity,
                 Mul(totalIncreaseRate(cursorPositions, cellCenter, cfg, cursorVelocity),
                     deltaTime))
    ELSE currentDensity

densityAfterIncrease_PerFrame(currentDensity, cell, cursorPositions, deltaTime, cfg, cursorVelocity) ==
    IF Len(cursorPositions) > 0
    THEN LET cellCenter == getCellCenter(cell)
             avgIncreaseRate ==
                 Div(totalIncreaseRate(cursorPositions, cellCenter, cfg, cursorVelocity),
                     Int2Num(Len(cursorPositions)))
         IN  Add(currentDensity, Mul(avgIncreaseRate, Num(1, 20)))
    ELSE currentDensity

\* newDensity after the increase (lines 88-109).
densityAfterIncrease(currentDensity, cell, cursorPositions, deltaTime, cfg, cursorVelocity) ==
    IF Len(cursorPositions) > 0
    THEN LET cellCenter == getCellCenter(cell)
             avgIncreaseRate ==
                 Div(totalIncreaseRate(cursorPositions, cellCenter, cfg, cursorVelocity),
                     Int2Num(Len(cursorPositions)))
         IN  Add(currentDensity, Mul(avgIncreaseRate, deltaTime))
    ELSE currentDensity

finalDecayRate_Milliseconds(cfg, lastPaintedTime, currentTime) ==
    LET timeSincePainted == Sub(currentTime, lastPaintedTime)
        timeBasedMultiplier == calculateTimeBasedDecayMultiplier(timeSincePainted, cfg)
    IN  Mul(Mul(cfg.decayRate, cfg.decayMultiplier), timeBasedMultiplier)

\* finalDecayRate (lines 112-116).
finalDecayRate(cfg, lastPaintedTime, currentTime) ==
    LET timeSincePainted == Div(Sub(currentTime, lastPaintedTime), Int2Num(1000))
        timeBasedMultiplier == calculateTimeBasedDecayMultiplier(timeSincePainted, cfg)
    IN  Mul(Mul(cfg.decayRate, cfg.decayMultiplier), timeBasedMultiplier)

\* newDensity just before the clamp of line 120.
densityBeforeClamp(currentDensity, cell, cursorPositions, deltaTime, cfg, cursorVelocity, lastPaintedTime, currentTime) ==
    Sub(densityAfterIncrease(currentDensity, cell, cursorPositions, deltaTime, cfg,
                             cursorVelocity),
        Mul(finalDecayRate(cfg, lastPaintedTime, currentTime), deltaTime))

updateCellDensity_NoClamp(currentDensity, cell, cursorPositions, deltaTime, cfg, cursorVelocity, lastPaintedTime, currentTime) ==
    densityBeforeClamp(currentDensity, cell, cursorPositions, deltaTime, cfg,
                       cursorVelocity, lastPaintedTime, currentTime)

updateCellDensity_DecayPerCall(currentDensity, cell, cursorPositions, deltaTime, cfg, cursorVelocity, lastPaintedTime, currentTime) ==
    MathMax(Zero, MathMin(One,
        Sub(densityAfterIncrease(currentDensity, cell, cursorPositions, deltaTime, cfg,
                                 cursorVelocity),
            finalDecayRate(cfg, lastPaintedTime, currentTime))))

updateCellDensity_AddsDecay(currentDensity, cell, cursorPositions, deltaTime, cfg, cursorVelocity, lastPaintedTime, currentTime) ==
    MathMax(Zero, MathMin(One,
        Add(densityAfterIncrease(currentDensity, cell, cursorPositions, deltaTime, cfg,
                                 cursorVelocity),
            Mul(finalDecayRate(cfg, lastPaintedTime, currentTime), deltaTime))))

updateCellDensity_ClampBeforeDecay(currentDensity, cell, cursorPositions, deltaTime, cfg, cursorVelocity, lastPaintedTime, currentTime) ==
    MathMax(Zero, MathMin(One,
        Sub(MathMax(Zero, MathMin(One,
                densityAfterIncrease(currentDensity, cell, cursorPositions, deltaTime, cfg,
                                     cursorVelocity))),
            Mul(finalDecayRate(cfg, lastPaintedTime, currentTime), deltaTime))))

updateCellDensity(currentDensity, cell, cursorPositions, deltaTime, cfg, cursorVelocity, lastPaintedTime, currentTime) ==
    MathMax(Zero, MathMin(One,
        densityBeforeClamp(currentDensity, cell, cursorPositions, deltaTime, cfg,
                           cursorVelocity, lastPaintedTime, currentTime)))

densityToSubdivisionLevel_Round(dens, maxLevel) ==
    LET level == MathFloor(Add(Mul(dens, Int2Num(maxLevel)), Num(1, 2)))
    IN  MathMax(Zero, MathMin(Int2Num(maxLevel), level))

densityToSubdivisionLevel(dens, maxLevel) ==
    LET level == MathFloor(Mul(dens, Int2Num(maxLevel)))
    IN  MathMax(Zero, MathMin(Int2Num(maxLevel), level))

---------------------------------------------------------------------------
(* src/utils/interpolation.ts *)

\* The points pushed by the loop of lines 32-38, for a finite numSteps.
interpolatedPoints(p1, dx, dy, numSteps) ==
    [ k \in 1..(numSteps.n + 1) |->
        LET t == Div(Int2Num(k - 1), numSteps)
        IN  Point(Add(p1.x, Mul(dx, t)), Add(p1.y, Mul(dy, t))) ]

interpolatePoints_FloorSteps(p1, p2, stepSize) ==
    LET dx == Sub(p2.x, p1.x)
        dy == Sub(p2.y, p1.y)
        distance == MathSqrt(Add(Mul(dx, dx), Mul(dy, dy)))
    IN  IF Lt(distance, stepSize) THEN << p2 >>
        ELSE LET numSteps == MathFloor(Div(distance, stepSize))
             IN  IF IsNaN(numSteps) THEN << >>
                 ELSE interpolatedPoints(p1, dx, dy, numSteps)

interpolatePoints_NoShortcut(p1, p2, stepSize) ==
    LET dx == Sub(p2.x, p1.x)
        dy == Sub(p2.y, p1.y)
        distance == MathSqrt(Add(Mul(dx, dx), Mul(dy, dy)))
        numSteps == MathCeil(Div(distance, stepSize))
    IN  IF IsNaN(numSteps) THEN << >>
        ELSE interpolatedPoints(p1, dx, dy, numSteps)

\* The loop condition i <= numSteps is false from the start when numSteps is
\* NaN (distance 0 and stepSize 0).  numSteps is finite for every stepSize > 0,
\* the only step sizes drawn below.
interpolatePoints(p1, p2, stepSize) ==
    LET dx == Sub(p2.x, p1.x)
        dy == Sub(p2.y, p1.y)
        distance == MathSqrt(Add(Mul(dx, dx), Mul(dy, dy)))
    IN  IF Lt(distance, stepSize) THEN << p2 >>
        ELSE LET numSteps == MathCeil(Div(distance, stepSize))
             IN  IF IsNaN(numSteps) THEN << >>
                 ELSE interpolatedPoints(p1, dx, dy, numSteps)

---------------------------------------------------------------------------
(* Values left alone by a specification that does not use them *)

NoUpdate == [made |-> FALSE]
NoSplit == [made |-> FALSE]
NoFrame == [state |-> "none"]
NoFrameYet == [made |-> FALSE]
NoPoint == [none |-> TRUE]
NoEvent == [kind |-> "none"]
NotInFrame == [running |-> FALSE]

\* The viewport the component measured at its mount: room for two base cells
\* side by side.
InitialCanvasSize == [width |-> Int2Num(205), height |-> Int2Num(48)]

\* Frame requests before the first one: animationFrameRef.current is undefined.
NoRequests == [pending |-> {}, ref |-> 0, nextId |-> 1]

\* animationFrameRef.current = requestAnimationFrame(render).
requestFrame(requests) ==
    [ pending |-> requests.pending \cup { requests.nextId },
      ref |-> requests.nextId,
      nextId |-> requests.nextId + 1 ]

\* The browser takes the callback with this id off its list and runs it.
runCallback(requests, id) == [requests EXCEPT !.pending = @ \ { id }]

effectCleanup_NoCancel(requests) == requests

\* The cleanup of the render effect: cancelAnimationFrame of the stored id.
effectCleanup(requests) ==
    IF requests.ref # 0 THEN [requests EXCEPT !.pending = @ \ { requests.ref }]
    ELSE requests

effectRerun_NoCleanup(requests, changed) ==
    IF changed THEN requestFrame(requests) ELSE requests

\* After a commit that changed one of the effect's dependencies React runs the
\* cleanup of the previous effect and then the effect again.
effectRerun(requests, changed) ==
    IF changed THEN requestFrame(effectCleanup(requests)) ELSE requests

\* The mounted component after its effects have run once.
MountedInitial ==
    /\ canvasSize = InitialCanvasSize
    /\ mounted = TRUE
    /\ animationFrame = requestFrame(NoRequests)
    /\ inFrame = NotInFrame
    /\ lastEvent = NoEvent

\* The component as constructed (useState and useRef initial values) and
\* mounted, with the clock started at the mount.
LoopInitial ==
    /\ MountedInitial
    /\ now = 0
    /\ lastFrameTime = Zero
    /\ lastMouseMoveTime = Zero
    /\ lastMousePos = NoPoint
    /\ mousePos = NoPoint
    /\ velocityState = Zero
    /\ cellDensities = << >>
    /\ lastFrame = NoFrameYet
    /\ steps = 0

---------------------------------------------------------------------------
(* DensitySpreadsheet: pointer handlers and the render callback.  The render *)
(* callback of the source passes each base cell's density, the pointer and   *)
(* the capped deltaTime to updateCellDensity.  The per-cell lastPaintedTime, *)
(* which updateCellDensity takes as an argument, is kept as the data model   *)
(* describes it (CellDensityState): read with the default of a cell never    *)
(* painted, and refreshed to the frame's timestamp when the cell receives    *)
(* increase, before the decay is computed.                                   *)

getGridDimensions(cfg) ==
    LET availableWidth == Sub(canvasSize.width, Int2Num(HEADER_WIDTH))
        availableHeight == Sub(canvasSize.height, Int2Num(HEADER_HEIGHT))
    IN  [ columns |-> MathCeil(Div(availableWidth, cfg.baseCellWidth)).n,
          rows |-> MathCeil(Div(availableHeight, cfg.baseCellHeight)).n ]

\* The base cells in the order of the two loops, row by row.
getBaseCells(cfg) ==
    LET dims == getGridDimensions(cfg)
    IN  [ k \in 1..(dims.rows * dims.columns) |->
            BaseCell(cfg, (k - 1) % dims.columns, (k - 1) \div dims.columns) ]

cellKey(cell) == << cell.baseX, cell.baseY >>

\* deltaTime in seconds between two frame timestamps in milliseconds.
frameDeltaTime(currentTime, previousFrameTime) ==
    Div(Sub(currentTime, previousFrameTime), Int2Num(1000))

cappedDeltaTime_Uncapped(deltaTime) == deltaTime

cappedDeltaTime(deltaTime) == MathMin(deltaTime, Num(1, 10))

frameVelocity_AlwaysDecays(prev, currentTime, lastMoveTime) ==
    MathMax(Zero, Mul(prev, Num(7, 10)))

\* The velocity estimate after the frame's decay.
frameVelocity(prev, currentTime, lastMoveTime) ==
    LET timeSinceMouseMove == Div(Sub(currentTime, lastMoveTime), Int2Num(1000))
    IN  IF Gt(timeSinceMouseMove, Num(1, 20)) THEN MathMax(Zero, Mul(prev, Num(7, 10)))
        ELSE prev

\* The velocity estimate after a move sample.
moveVelocity(prev, newPos, lastPos, moveTime, lastMoveTime) ==
    IF lastPos = NoPoint THEN prev
    ELSE LET distance == calculateDistance(newPos, lastPos)
             deltaTime == Div(Sub(moveTime, lastMoveTime), Int2Num(1000))
             velocity == IF Gt(deltaTime, Zero) THEN Div(distance, deltaTime) ELSE Zero
         IN  Add(Mul(prev, Num(7, 10)), Mul(velocity, Num(3, 10)))

\* A cell never updated reads as density 0, never painted.
defaultCellState == [density |-> Zero, lastPaintedTime |-> NegInfinity]

readCellState(densities, key) ==
    IF key \in DOMAIN densities THEN densities[key] ELSE defaultCellState

\* The frame's contact points: the pointer, when it is over the canvas.
contactPoints(pos) == IF pos = NoPoint THEN << >> ELSE << pos >>

\* The cell receives a non-zero increase contribution from some contact point.
receivesIncrease(cell, points, cfg, velocity) ==
    \E i \in 1..Len(points) :
        Gt(calculateIncreaseRate(calculateDistance(points[i], getCellCenter(cell)),
                                 cfg, velocity), Zero)

frameLastPaintedTime_AnyContact(state, cell, points, cfg, velocity, currentTime) ==
    IF Len(points) > 0 THEN currentTime ELSE state.lastPaintedTime

\* The lastPaintedTime the frame uses for the cell, and stores.
frameLastPaintedTime(state, cell, points, cfg, velocity, currentTime) ==
    IF receivesIncrease(cell, points, cfg, velocity) THEN currentTime
    ELSE state.lastPaintedTime

\* The cell's new state: the body of baseCells.forEach, without the drawing.
updatedCellState(state, cell, points, deltaTime, cfg, velocity, currentTime) ==
    LET lastPaintedTime ==
            frameLastPaintedTime(state, cell, points, cfg, velocity, currentTime)
    IN  [ density |-> updateCellDensity(state.density, cell, points, deltaTime, cfg,
                                        velocity, lastPaintedTime, currentTime),
          lastPaintedTime |-> lastPaintedTime ]

frameDensities_OnlyVisible(densities, cells, points, deltaTime, cfg, velocity, currentTime) ==
    LET keys == { cellKey(cells[i]) : i \in 1..Len(cells) }
        cellOf(key) == CHOOSE c \in { cells[i] : i \in 1..Len(cells) } : cellKey(c) = key
    IN  [ key \in keys |->
            updatedCellState(readCellState(densities, key), cellOf(key), points,
                             deltaTime, cfg, velocity, currentTime) ]

\* The map after the frame: every base cell updated, other entries kept.
frameDensities(densities, cells, points, deltaTime, cfg, velocity, currentTime) ==
    LET keys == { cellKey(cells[i]) : i \in 1..Len(cells) }
        cellOf(key) == CHOOSE c \in { cells[i] : i \in 1..Len(cells) } : cellKey(c) = key
    IN  [ key \in (DOMAIN densities) \cup keys |->
            IF key \in keys
            THEN updatedCellState(readCellState(densities, key), cellOf(key), points,
                                  deltaTime, cfg, velocity, currentTime)
            ELSE densities[key] ]

\* The render callback, called with the frame's timestamp elapsedMs after the
\* previous event.
Render(elapsedMs) ==
    LET currentTime == Int2Num(now + elapsedMs)
        deltaTime == frameDeltaTime(currentTime, lastFrameTime)
        capped == cappedDeltaTime(deltaTime)
        points == contactPoints(mousePos)
    IN  \E id \in animationFrame.pending :
            /\ animationFrame' =
                   effectRerun(requestFrame(runCallback(animationFrame, id)), TRUE)
            /\ now' = now + elapsedMs
            /\ lastFrameTime' = currentTime
            /\ velocityState' = frameVelocity(velocityState, currentTime, lastMouseMoveTime)
            /\ cellDensities' =
                   frameDensities(cellDensities, getBaseCells(config), points, capped, config,
                                  velocityState, currentTime)
            /\ lastFrame' =
                   [ made |-> TRUE,
                     id |-> id,
                     currentTime |-> currentTime,
                     elapsed |-> deltaTime,
                     deltaTime |-> capped,
                     contact |-> points,
                     velocity |-> velocityState,
                     keys |-> { cellKey(getBaseCells(config)[k]) :
                                  k \in 1..Len(getBaseCells(config)) },
                     lastMoveTime |-> lastMouseMoveTime,
                     velocityAfter |->
                         frameVelocity(velocityState, currentTime, lastMouseMoveTime),
                     before |-> cellDensities,
                     cappedTotal |->
                         Add(IF lastFrame.made THEN lastFrame.cappedTotal ELSE Zero, capped) ]
            /\ steps' = steps + 1
            /\ UNCHANGED <<lastMouseMoveTime, lastMousePos, mousePos>>
            /\ UNCHANGED <<canvasSize, mounted, inFrame, lastEvent>>
            /\ UNCHANGED <<config, rateCalls, decayCalls, levelCalls, density, lastUpdate,
                           updates, frame, velocityCalls, interpCalls>>

\* handleMouseMove, waitMs after the previous event.
HandleMouseMove(newPos, waitMs) ==
    LET moveTime == Int2Num(now + waitMs)
    IN  /\ mounted
        /\ now' = now + waitMs
        /\ velocityState' =
               moveVelocity(velocityState, newPos, lastMousePos, moveTime, lastMouseMoveTime)
        /\ lastMousePos' = newPos
        /\ lastMouseMoveTime' = moveTime
        /\ mousePos' = newPos
        /\ animationFrame' = effectRerun(animationFrame, TRUE)
        /\ lastEvent' =
               [ kind |-> "move",
                 newPos |-> newPos,
                 time |-> moveTime,
                 previousPos |-> lastMousePos,
                 previousTime |-> lastMouseMoveTime,
                 previousVelocity |-> velocityState,
                 velocity |->
                     moveVelocity(velocityState, newPos, lastMousePos, moveTime,
                                  lastMouseMoveTime) ]
        /\ steps' = steps + 1
        /\ UNCHANGED <<lastFrameTime, cellDensities, lastFrame>>
        /\ UNCHANGED <<canvasSize, mounted, inFrame>>
        /\ UNCHANGED <<config, rateCalls, decayCalls, levelCalls, density, lastUpdate,
                       updates, frame, velocityCalls, interpCalls>>

HandleMouseLeave_KeepsSample ==
    /\ mounted
    /\ mousePos' = NoPoint
    /\ velocityState' = Zero
    /\ lastMousePos' = lastMousePos
    /\ animationFrame' =
           effectRerun(animationFrame, mousePos # NoPoint \/ velocityState # Zero)
    /\ lastEvent' =
           [ kind |-> "leave",
             previousPos |-> lastMousePos,
             previousVelocity |-> velocityState ]
    /\ steps' = steps + 1
    /\ UNCHANGED <<now, lastFrameTime, lastMouseMoveTime, cellDensities, lastFrame>>
    /\ UNCHANGED <<canvasSize, mounted, inFrame>>
    /\ UNCHANGED <<config, rateCalls, decayCalls, levelCalls, density, lastUpdate,
                   updates, frame, velocityCalls, interpCalls>>

\* handleMouseLeave.
HandleMouseLeave ==
    /\ mounted
    /\ mousePos' = NoPoint
    /\ velocityState' = Zero
    /\ lastMousePos' = NoPoint
    /\ animationFrame' =
           effectRerun(animationFrame, mousePos # NoPoint \/ velocityState # Zero)
    /\ lastEvent' =
           [ kind |-> "leave",
             previousPos |-> lastMousePos,
             previousVelocity |-> velocityState ]
    /\ steps' = steps + 1
    /\ UNCHANGED <<now, lastFrameTime, lastMouseMoveTime, cellDensities, lastFrame>>
    /\ UNCHANGED <<canvasSize, mounted, inFrame>>
    /\ UNCHANGED <<config, rateCalls, decayCalls, levelCalls, density, lastUpdate,
                   updates, frame, velocityCalls, interpCalls>>


\* updateSize, called by the window's resize event with the container's size.
\* setCanvasSize is given a new object, so the component renders again, and
\* every render of the component builds a new config object, which is one of
\* the effect's dependencies.
HandleResize(size) ==
    /\ mounted
    /\ canvasSize' = size
    /\ animationFrame' = effectRerun(animationFrame, TRUE)
    /\ lastEvent' = [kind |-> "resize", previousSize |-> canvasSize]
    /\ steps' = steps + 1
    /\ UNCHANGED <<now, lastFrameTime, lastMouseMoveTime, lastMousePos, mousePos,
                   velocityState, cellDensities, lastFrame, mounted, inFrame>>
    /\ UNCHANGED <<config, rateCalls, decayCalls, levelCalls, density, lastUpdate,
                   updates, frame, velocityCalls, interpCalls>>

\* The view is torn down: React runs the cleanup of the render effect.
Unmount ==
    /\ mounted
    /\ mounted' = FALSE
    /\ animationFrame' = effectCleanup(animationFrame)
    /\ lastEvent' =
           [ kind |-> "unmount",
             cancelled |-> animationFrame.pending,
             frame |-> lastFrame,
             densities |-> cellDensities ]
    /\ steps' = steps + 1
    /\ UNCHANGED <<now, lastFrameTime, lastMouseMoveTime, lastMousePos, mousePos,
                   velocityState, cellDensities, lastFrame, canvasSize, inFrame>>
    /\ UNCHANGED <<config, rateCalls, decayCalls, levelCalls, density, lastUpdate,
                   updates, frame, velocityCalls, interpCalls>>



\* The parent renders the component with another config.
HandleConfigChange(cfg) ==
    /\ mounted
    /\ config' = cfg
    /\ animationFrame' = effectRerun(animationFrame, TRUE)
    /\ lastEvent' = [kind |-> "config", previousConfig |-> config]
    /\ steps' = steps + 1
    /\ UNCHANGED <<now, lastFrameTime, lastMouseMoveTime, lastMousePos, mousePos,
                   velocityState, cellDensities, lastFrame, canvasSize, mounted, inFrame>>
    /\ UNCHANGED <<rateCalls, decayCalls, levelCalls, density, lastUpdate,
                   updates, frame, velocityCalls, interpCalls>>

\* Map.set(key, value) on a map.
withEntry(map, key, value) ==
    [ k \in (DOMAIN map) \cup { key } |-> IF k = key THEN value ELSE map[k] ]

\* The render callback statement by statement.  It starts: the browser calls
\* it with the frame's timestamp, and it copies the published map
\* (newDensities = new Map(cellDensities)).
RenderBegin(elapsedMs) ==
    LET currentTime == Int2Num(now + elapsedMs)
        deltaTime == frameDeltaTime(currentTime, lastFrameTime)
    IN  \E id \in animationFrame.pending :
            /\ ~inFrame.running
            /\ animationFrame' = runCallback(animationFrame, id)
            /\ now' = now + elapsedMs
            /\ lastFrameTime' = currentTime
            /\ inFrame' =
                   [ running |-> TRUE,
                     id |-> id,
                     currentTime |-> currentTime,
                     elapsed |-> deltaTime,
                     deltaTime |-> cappedDeltaTime(deltaTime),
                     contact |-> contactPoints(mousePos),
                     velocity |-> velocityState,
                     cells |-> getBaseCells(config),
                     published |-> cellDensities,
                     newDensities |-> cellDensities,
                     index |-> 0 ]
            /\ UNCHANGED <<lastMouseMoveTime, lastMousePos, mousePos, velocityState,
                           cellDensities, lastFrame, steps, canvasSize, mounted,
                           lastEvent>>
            /\ UNCHANGED <<config, rateCalls, decayCalls, levelCalls, density, lastUpdate,
                           updates, frame, velocityCalls, interpCalls>>

\* The working copy after one more pass of baseCells.forEach.
nextNewDensities(f, cfg) ==
    LET cell == f.cells[f.index + 1]
        key == cellKey(cell)
    IN  withEntry(f.newDensities, key,
                  updatedCellState(readCellState(f.newDensities, key), cell, f.contact,
                                   f.deltaTime, cfg, f.velocity, f.currentTime))

RenderCell_InPlace ==
    /\ inFrame.running
    /\ inFrame.index < Len(inFrame.cells)
    /\ inFrame' = [ inFrame EXCEPT !.index = @ + 1,
                                   !.newDensities = nextNewDensities(inFrame, config) ]
    /\ cellDensities' = nextNewDensities(inFrame, config)
    /\ UNCHANGED <<now, lastFrameTime, lastMouseMoveTime, lastMousePos, mousePos,
                   velocityState, lastFrame, steps, canvasSize, mounted,
                   animationFrame, lastEvent>>
    /\ UNCHANGED <<config, rateCalls, decayCalls, levelCalls, density, lastUpdate,
                   updates, frame, velocityCalls, interpCalls>>

\* One pass of baseCells.forEach: the next base cell is updated in the copy.
RenderCell ==
    /\ inFrame.running
    /\ inFrame.index < Len(inFrame.cells)
    /\ inFrame' = [ inFrame EXCEPT !.index = @ + 1,
                                   !.newDensities = nextNewDensities(inFrame, config) ]
    /\ UNCHANGED <<now, lastFrameTime, lastMouseMoveTime, lastMousePos, mousePos,
                   velocityState, cellDensities, lastFrame, steps, canvasSize, mounted,
                   animationFrame, lastEvent>>
    /\ UNCHANGED <<config, rateCalls, decayCalls, levelCalls, density, lastUpdate,
                   updates, frame, velocityCalls, interpCalls>>

\* The callback ends: setCellDensities(newDensities), the next frame is
\* requested, and React commits the state updates of the callback.
RenderEnd ==
    /\ inFrame.running
    /\ inFrame.index = Len(inFrame.cells)
    /\ cellDensities' = inFrame.newDensities
    /\ velocityState' =
           frameVelocity(velocityState, inFrame.currentTime, lastMouseMoveTime)
    /\ animationFrame' = effectRerun(requestFrame(animationFrame), TRUE)
    /\ lastFrame' =
           [ made |-> TRUE,
             id |-> inFrame.id,
             currentTime |-> inFrame.currentTime,
             elapsed |-> inFrame.elapsed,
             deltaTime |-> inFrame.deltaTime,
             contact |-> inFrame.contact,
             velocity |-> inFrame.velocity,
             keys |-> { cellKey(inFrame.cells[k]) : k \in 1..Len(inFrame.cells) },
             lastMoveTime |-> lastMouseMoveTime,
             velocityAfter |->
                 frameVelocity(velocityState, inFrame.currentTime, lastMouseMoveTime),
             before |-> inFrame.published,
             cappedTotal |->
                 Add(IF lastFrame.made THEN lastFrame.cappedTotal ELSE Zero,
                     inFrame.deltaTime) ]
    /\ inFrame' = NotInFrame
    /\ steps' = steps + 1
    /\ UNCHANGED <<now, lastFrameTime, lastMouseMoveTime, lastMousePos, mousePos,
                   canvasSize, mounted, lastEvent>>
    /\ UNCHANGED <<config, rateCalls, decayCalls, levelCalls, density, lastUpdate,
                   updates, frame, velocityCalls, interpCalls>>

---------------------------------------------------------------------------
(* SpecRate: calculateIncreaseRate applied to drawn distances and velocities *)

Distances == { Int2Num(k * DistanceStep) : k \in 0..MaxDistanceSteps }

Velocities == { Int2Num(0), Int2Num(500), Int2Num(1000), Int2Num(2000) }

RateConfigs ==
    { [createDefaultConfig EXCEPT !.influenceRadius = r, !.velocityInfluence = vi,
                                  !.increaseRate = ir, !.increaseMultiplier = im] :
        r \in { Zero, Int2Num(100), Int2Num(200) },
        vi \in { One, Int2Num(8) },
        ir \in { Zero, Num(2, 5) },
        im \in { Num(4, 5), One } }

InitRate ==
    /\ config \in RateConfigs
    /\ rateCalls = {}
    /\ velocityCalls = {}
    /\ interpCalls = {}
    /\ LoopInitial
    /\ decayCalls = {}
    /\ levelCalls = {}
    /\ density = Zero
    /\ lastUpdate = NoUpdate
    /\ updates = 0
    /\ frame = NoFrame

CallCalculateIncreaseRate(distance, velocity) ==
    /\ Cardinality(rateCalls) < MaxLoggedCalls
    /\ rateCalls' = rateCalls \cup
           { [ distance |-> distance, velocity |-> velocity,
               call |-> increaseRateCall(distance, config, velocity) ] }
    /\ UNCHANGED <<config, decayCalls, levelCalls, density, lastUpdate, updates, frame, velocityCalls, interpCalls, loopVars>>

NextRate == \E d \in Distances, v \in Velocities : CallCalculateIncreaseRate(d, v)

SpecRate == InitRate /\ [][NextRate]_vars

\* C3: for a fixed config and velocity, calculateIncreaseRate never increases
\* with distance: of two calls, the one at the larger distance returns no more.
C3_FalloffMonotone ==
    \A c1 \in rateCalls, c2 \in rateCalls :
        (c1.velocity = c2.velocity /\ Lt(c1.distance, c2.distance))
            => Ge(c1.call.returned, c2.call.returned)

C3_Witness ==
    \E c1 \in rateCalls, c2 \in rateCalls :
        /\ c1.velocity = c2.velocity
        /\ Lt(c1.distance, c2.distance)
        /\ Lt(c2.distance, config.influenceRadius)
        /\ Gt(c1.call.returned, c2.call.returned)
        /\ Gt(c2.call.returned, Zero)

\* C4: at or beyond influenceRadius, a zero radius included, calculateIncreaseRate
\* returns exactly 0 and has not divided by influenceRadius.
C4_ZeroBeyondRadius ==
    \A c \in rateCalls :
        Ge(c.distance, config.influenceRadius)
            => (c.call.returned = Zero /\ ~c.call.divided)

C4_Witness ==
    /\ config.influenceRadius = Zero
    /\ \E c \in rateCalls : c.distance = Zero /\ c.call.returned = Zero
    /\ \E c \in rateCalls : Gt(c.distance, Zero) /\ c.call.returned = Zero

---------------------------------------------------------------------------
(* SpecDecay: calculateTimeBasedDecayMultiplier applied to drawn times *)

\* Milliseconds since the cell was painted: a timestamp before the paint, the
\* first seconds after it, and the same span after a long idle period.
ElapsedMs ==
    { -TimeStepMs }
        \cup { k * TimeStepMs : k \in 0..MaxTimeSteps }
        \cup { LongIdleMs + k * TimeStepMs : k \in 0..MaxTimeSteps }

SecondsSincePainted == { Num(ms, 1000) : ms \in ElapsedMs }

DecayConfigs ==
    { [createDefaultConfig EXCEPT !.holdDuration = h, !.decayAcceleration = a] :
        h \in { Zero, Num(3, 2), Int2Num(3) },
        a \in { Zero, One, Int2Num(5) } }

InitDecay ==
    /\ config \in DecayConfigs
    /\ rateCalls = {}
    /\ velocityCalls = {}
    /\ interpCalls = {}
    /\ LoopInitial
    /\ decayCalls = {}
    /\ levelCalls = {}
    /\ density = Zero
    /\ lastUpdate = NoUpdate
    /\ updates = 0
    /\ frame = NoFrame

CallCalculateTimeBasedDecayMultiplier(timeSincePainted) ==
    /\ Cardinality(decayCalls) < MaxLoggedCalls
    /\ decayCalls' = decayCalls \cup
           { [ timeSincePainted |-> timeSincePainted,
               returned |-> calculateTimeBasedDecayMultiplier(timeSincePainted, config) ] }
    /\ UNCHANGED <<config, rateCalls, levelCalls, density, lastUpdate, updates, frame, velocityCalls, interpCalls, loopVars>>

NextDecay == \E t \in SecondsSincePainted : CallCalculateTimeBasedDecayMultiplier(t)

SpecDecay == InitDecay /\ [][NextDecay]_vars

\* C5: calculateTimeBasedDecayMultiplier returns exactly 0 for every time
\* below holdDuration, whatever decayAcceleration is.
C5_HoldReturnsZero ==
    \A c \in decayCalls :
        Lt(c.timeSincePainted, config.holdDuration) => c.returned = Zero

C5_Witness ==
    \E c \in decayCalls :
        /\ Gt(c.timeSincePainted, Zero)
        /\ Lt(c.timeSincePainted, config.holdDuration)
        /\ Gt(config.decayAcceleration, Zero)
        /\ c.returned = Zero

\* C6 as stated: past holdDuration with decayAcceleration > 0 the multiplier is
\* in [0, 1), never reaching 1, and strictly increasing in the time.
C6_StrictlyBelowOne ==
    \A c1 \in decayCalls, c2 \in decayCalls :
        (Gt(c1.timeSincePainted, config.holdDuration) /\ Gt(config.decayAcceleration, Zero))
            => /\ Ge(c1.returned, Zero)
               /\ Lt(c1.returned, One)
               /\ Lt(c1.timeSincePainted, c2.timeSincePainted)
                      => Lt(c1.returned, c2.returned)

\* C6 as amended: past holdDuration with decayAcceleration > 0 the multiplier is
\* in [0, 1] and never decreases as the time grows; it does reach exactly 1.
C6_MonotoneUpToOne ==
    \A c1 \in decayCalls, c2 \in decayCalls :
        (Gt(c1.timeSincePainted, config.holdDuration) /\ Gt(config.decayAcceleration, Zero))
            => /\ Ge(c1.returned, Zero)
               /\ Le(c1.returned, One)
               /\ Lt(c1.timeSincePainted, c2.timeSincePainted)
                      => Le(c1.returned, c2.returned)

C6_Witness ==
    \E c1 \in decayCalls, c2 \in decayCalls :
        /\ Gt(config.decayAcceleration, Zero)
        /\ Gt(c1.timeSincePainted, config.holdDuration)
        /\ Lt(c1.timeSincePainted, c2.timeSincePainted)
        /\ Gt(c1.returned, Zero)
        /\ Lt(c1.returned, c2.returned)
        /\ c2.returned = One

---------------------------------------------------------------------------
(* SpecDensity: consecutive updateCellDensity calls on one base cell *)

TheCell == BaseCell(createDefaultConfig, 0, 0)

\* A contact point at the given distance from the cell's centre, along a
\* 3-4-5 triangle so that calculateDistance is exact.
PointAt(dist) ==
    LET c == getCellCenter(TheCell)
    IN  Point(Add(c.x, Mul(Num(3, 5), dist)), Add(c.y, Mul(Num(4, 5), dist)))

\* No contact; the pointer on the centre; a stroke of two interpolated points.
CursorPositionLists ==
    { << >>,
      << PointAt(Zero) >>,
      << PointAt(Zero), PointAt(Int2Num(2 * DistanceStep)) >> }

\* deltaTime in seconds, within the render loop's cap of 0.1 s.
DeltaTimes == { Zero, Num(1, 20), Num(1, 10) }

CursorVelocities == { Zero, Int2Num(1000) }

\* <<lastPaintedTime, currentTime>> in milliseconds: a cell never painted, a
\* clock behind the paint, the frame of the paint, shortly after it, and after
\* a long idle period.
Timestamps ==
    { << NegInfinity, Int2Num(0) >>,
      << Int2Num(2 * TimeStepMs), Int2Num(0) >>,
      << Int2Num(0), Int2Num(0) >>,
      << Int2Num(0), Int2Num(5 * TimeStepMs) >>,
      << Int2Num(0), Int2Num(LongIdleMs) >> }

DensityConfigs ==
    { createDefaultConfig,
      [createDefaultConfig EXCEPT !.holdDuration = Zero, !.increaseMultiplier = One],
      [createDefaultConfig EXCEPT !.influenceRadius = Zero, !.decayRate = Zero] }

InitDensity ==
    /\ config \in DensityConfigs
    /\ rateCalls = {}
    /\ velocityCalls = {}
    /\ interpCalls = {}
    /\ LoopInitial
    /\ decayCalls = {}
    /\ levelCalls = {}
    /\ density \in { Zero, One }
    /\ lastUpdate = NoUpdate
    /\ updates = 0
    /\ frame = NoFrame

CallUpdateCellDensity(cursorPositions, deltaTime, cursorVelocity, lastPaintedTime, currentTime) ==
    /\ updates < MaxUpdates
    /\ density' = updateCellDensity(density, TheCell, cursorPositions, deltaTime, config,
                                    cursorVelocity, lastPaintedTime, currentTime)
    /\ lastUpdate' = [ made |-> TRUE,
                       currentDensity |-> density,
                       cursorPositions |-> cursorPositions,
                       deltaTime |-> deltaTime,
                       cursorVelocity |-> cursorVelocity,
                       lastPaintedTime |-> lastPaintedTime,
                       currentTime |-> currentTime ]
    /\ updates' = updates + 1
    /\ UNCHANGED <<config, rateCalls, decayCalls, levelCalls, frame, velocityCalls, interpCalls, loopVars>>

NextDensity ==
    \E ps \in CursorPositionLists, dt \in DeltaTimes, v \in CursorVelocities,
       ts \in Timestamps :
        CallUpdateCellDensity(ps, dt, v, ts[1], ts[2])

SpecDensity == InitDensity /\ [][NextDensity]_vars

\* The value the last call computed before clamping it.
LastUnclamped ==
    densityBeforeClamp(lastUpdate.currentDensity, TheCell, lastUpdate.cursorPositions,
                       lastUpdate.deltaTime, config, lastUpdate.cursorVelocity,
                       lastUpdate.lastPaintedTime, lastUpdate.currentTime)

\* C1: starting in [0,1], the density stays in [0,1] after every sequence of
\* updateCellDensity calls.
C1_DensityInUnitRange == Ge(density, Zero) /\ Le(density, One)

C1_Witness ==
    /\ updates >= 2
    /\ lastUpdate.made
    /\ Lt(LastUnclamped, Zero)
    /\ density = Zero

\* C7: a call with no cursor positions and deltaTime = 0 returns the current
\* density unchanged.
C7_ZeroInputLeavesDensity ==
    (lastUpdate.made /\ lastUpdate.cursorPositions = << >> /\ lastUpdate.deltaTime = Zero)
        => density = lastUpdate.currentDensity

C7_Witness ==
    /\ lastUpdate.made
    /\ lastUpdate.cursorPositions = << >>
    /\ lastUpdate.deltaTime = Zero
    /\ Gt(finalDecayRate(config, lastUpdate.lastPaintedTime, lastUpdate.currentTime), Zero)
    /\ Gt(lastUpdate.currentDensity, Zero)
    /\ Lt(lastUpdate.currentDensity, One)
    /\ density = lastUpdate.currentDensity

\* The per-second rates of the last call, from its recorded arguments: the
\* rate each contact point gives the cell, and the decay rate.
LastPointRates ==
    [ i \in 1..Len(lastUpdate.cursorPositions) |->
        calculateIncreaseRate(
            calculateDistance(lastUpdate.cursorPositions[i], getCellCenter(TheCell)),
            config, lastUpdate.cursorVelocity) ]

RECURSIVE SumOfNums(_)
SumOfNums(nums) ==
    IF nums = << >> THEN Zero ELSE Add(Head(nums), SumOfNums(Tail(nums)))

LastAverageIncreaseRate ==
    IF Len(LastPointRates) = 0 THEN Zero
    ELSE Div(SumOfNums(LastPointRates), Int2Num(Len(LastPointRates)))

LastDecayRate ==
    Mul(Mul(config.decayRate, config.decayMultiplier),
        calculateTimeBasedDecayMultiplier(
            Div(Sub(lastUpdate.currentTime, lastUpdate.lastPaintedTime), Int2Num(1000)),
            config))

Clamp01(a) == IF Lt(a, Zero) THEN Zero ELSE IF Gt(a, One) THEN One ELSE a

\* C13: one call returns the clamp to [0,1] of currentDensity
\* + averageIncreaseRate * deltaTime - decayRate * decayMultiplier *
\* timeBasedMultiplier * deltaTime: the decay is subtracted with or without
\* contact points, after the increase, and the clamp comes last and once; so a
\* cell under the pointer loses density when decay outpaces increase.
C13_IncreaseThenDecayThenClamp ==
    lastUpdate.made =>
        /\ density = Clamp01(Sub(Add(lastUpdate.currentDensity,
                                     Mul(LastAverageIncreaseRate, lastUpdate.deltaTime)),
                                 Mul(LastDecayRate, lastUpdate.deltaTime)))
        /\ ( /\ Len(lastUpdate.cursorPositions) > 0
             /\ Gt(LastDecayRate, LastAverageIncreaseRate)
             /\ Gt(lastUpdate.deltaTime, Zero)
             /\ Gt(lastUpdate.currentDensity, Zero) )
               => Lt(density, lastUpdate.currentDensity)

C13_Witness ==
    /\ lastUpdate.made
    /\ Len(lastUpdate.cursorPositions) > 0
    /\ Gt(LastAverageIncreaseRate, Zero)
    /\ Gt(LastDecayRate, LastAverageIncreaseRate)
    /\ Gt(lastUpdate.deltaTime, Zero)
    /\ Gt(density, Zero)
    /\ Lt(density, lastUpdate.currentDensity)

---------------------------------------------------------------------------
(* SpecCluster: updateCellDensity calls with clusters of contact points *)

\* One to four contact points at 0, 50, 100 and 250 px from the centre; the
\* default influenceRadius is 200.
ClusterLists ==
    { << PointAt(Zero) >>,
      << PointAt(Zero), PointAt(Int2Num(100)) >>,
      << PointAt(Int2Num(100)), PointAt(Zero), PointAt(Int2Num(50)) >>,
      << PointAt(Int2Num(50)), PointAt(Int2Num(50)), PointAt(Int2Num(50)),
         PointAt(Int2Num(250)) >> }

\* <<lastPaintedTime, currentTime>>: inside the hold window, and long after it.
ClusterTimestamps ==
    { << Int2Num(0), Int2Num(0) >>, << Int2Num(0), Int2Num(LongIdleMs) >> }

NextCluster ==
    \E ps \in ClusterLists, dt \in DeltaTimes \ { Zero }, v \in CursorVelocities,
       ts \in ClusterTimestamps :
        CallUpdateCellDensity(ps, dt, v, ts[1], ts[2])

SpecCluster == InitDensity /\ [][NextCluster]_vars

RECURSIVE MaxOfNums(_)
MaxOfNums(nums) ==
    IF Len(nums) = 1 THEN Head(nums) ELSE MathMax(Head(nums), MaxOfNums(Tail(nums)))

\* C14: with N >= 1 contact points the increase applied is the mean of the
\* points' rates times deltaTime, so the density rises by no more than the
\* largest single rate times deltaTime however many points there are.
C14_RatesAveraged ==
    (lastUpdate.made /\ Len(lastUpdate.cursorPositions) >= 1) =>
        LET N == Len(lastUpdate.cursorPositions)
            increase ==
                Mul(Div(SumOfNums(LastPointRates), Int2Num(N)), lastUpdate.deltaTime)
        IN  /\ Le(increase, Mul(MaxOfNums(LastPointRates), lastUpdate.deltaTime))
            /\ Le(density, Add(lastUpdate.currentDensity,
                               Mul(MaxOfNums(LastPointRates), lastUpdate.deltaTime)))
            /\ LastDecayRate = Zero
                   => density = MathMin(One, Add(lastUpdate.currentDensity, increase))

C14_Witness ==
    /\ lastUpdate.made
    /\ Len(lastUpdate.cursorPositions) >= 3
    /\ \A i \in 1..Len(LastPointRates) : Gt(LastPointRates[i], Zero)
    /\ LastDecayRate = Zero
    /\ Gt(density, lastUpdate.currentDensity)
    /\ Lt(density, Add(lastUpdate.currentDensity,
                       Mul(MaxOfNums(LastPointRates), lastUpdate.deltaTime)))
    /\ Lt(density, One)

---------------------------------------------------------------------------
(* SpecLevel: densityToSubdivisionLevel applied to drawn densities *)

Densities == { Num(k, DensityGrain) : k \in 0..DensityGrain }

InitLevel ==
    /\ config = createDefaultConfig
    /\ rateCalls = {}
    /\ velocityCalls = {}
    /\ interpCalls = {}
    /\ LoopInitial
    /\ decayCalls = {}
    /\ levelCalls = {}
    /\ density = Zero
    /\ lastUpdate = NoUpdate
    /\ updates = 0
    /\ frame = NoFrame

CallDensityToSubdivisionLevel(dens, maxLevel) ==
    /\ Cardinality(levelCalls) < MaxLoggedCalls
    /\ levelCalls' = levelCalls \cup
           { [ density |-> dens, maxLevel |-> maxLevel,
               returned |-> densityToSubdivisionLevel(dens, maxLevel) ] }
    /\ UNCHANGED <<config, rateCalls, decayCalls, density, lastUpdate, updates, frame, velocityCalls, interpCalls, loopVars>>

NextLevel == \E d \in Densities, m \in 0..MaxLevel : CallDensityToSubdivisionLevel(d, m)

SpecLevel == InitLevel /\ [][NextLevel]_vars

\* C2: for a density in [0,1] the level is the integer l in [0, maxLevel] with
\* l <= density * maxLevel < l + 1; it is 0 at density 0, maxLevel at density 1,
\* and does not decrease when the density increases.
C2_LevelIsClampedFloor ==
    \A c \in levelCalls :
        LET product == Mul(c.density, Int2Num(c.maxLevel))
        IN  /\ c.returned.d = 1
            /\ c.returned.n \in 0..c.maxLevel
            /\ Le(c.returned, product)
            /\ Lt(product, Add(c.returned, One))
            /\ (c.density = Zero => c.returned = Zero)
            /\ (c.density = One => c.returned = Int2Num(c.maxLevel))
            /\ \A c2 \in levelCalls :
                   (c2.maxLevel = c.maxLevel /\ Le(c.density, c2.density))
                       => Le(c.returned, c2.returned)

C2_Witness ==
    \E c1 \in levelCalls, c2 \in levelCalls :
        /\ c1.maxLevel = c2.maxLevel
        /\ Lt(c1.density, c2.density)
        /\ Lt(c2.density, One)
        /\ Lt(c1.returned, Mul(c1.density, Int2Num(c1.maxLevel)))
        /\ Gt(c1.returned, Zero)
        /\ Lt(c1.returned, c2.returned)

---------------------------------------------------------------------------
(* SpecSubdiv: subdivideCell on drawn base cells.  frame is one invocation  *)
(* subdivideCell(cell, targetLevel, currentLevel): "called" until it        *)
(* returns, then "returned" with its result and the split it performed.     *)
(* The recursive invocations of lines 137-138 are frames of their own.      *)

\* <<baseCellWidth, baseCellHeight>>: the default cell, a square, a tall cell
\* and a cell twice as wide as high.
CellShapes == { <<80, 24>>, <<24, 24>>, <<24, 80>>, <<48, 24>> }

SubdivCells ==
    { BaseCell([createDefaultConfig EXCEPT !.baseCellWidth = Int2Num(shape[1]),
                                           !.baseCellHeight = Int2Num(shape[2])],
               col, row) :
        shape \in CellShapes, col \in 0..1, row \in 0..1 }

InitSubdiv ==
    /\ config = createDefaultConfig
    /\ rateCalls = {}
    /\ velocityCalls = {}
    /\ interpCalls = {}
    /\ LoopInitial
    /\ decayCalls = {}
    /\ levelCalls = {}
    /\ density = Zero
    /\ lastUpdate = NoUpdate
    /\ updates = 0
    /\ frame \in { [ state |-> "called", cell |-> c, targetLevel |-> l,
                     currentLevel |-> 0, split |-> NoSplit, result |-> << >> ] :
                   c \in SubdivCells, l \in 0..MaxTargetLevel }

\* The invocation runs to its return statement (lines 124-139).
SubdivideCellReturn ==
    /\ frame.state = "called"
    /\ frame' =
           [ frame EXCEPT
               !.state = "returned",
               !.split =
                   IF frame.currentLevel >= frame.targetLevel THEN NoSplit
                   ELSE LET direction ==
                                getSubdivisionDirection(frame.cell.width, frame.cell.height)
                        IN  [ made |-> TRUE,
                              direction |-> direction,
                              children |-> subdivideCellOnce(frame.cell, direction) ],
               !.result = subdivideCell(frame.cell, frame.targetLevel, frame.currentLevel) ]
    /\ UNCHANGED <<config, rateCalls, decayCalls, levelCalls, density, lastUpdate, updates, velocityCalls, interpCalls, loopVars>>

\* The invocation calls itself on its i-th child (line 137 or 138).
SubdivideCellRecurse(i) ==
    /\ frame.state = "called"
    /\ frame.currentLevel < frame.targetLevel
    /\ frame' =
           [ frame EXCEPT
               !.cell = subdivideCellOnce(frame.cell,
                            getSubdivisionDirection(frame.cell.width, frame.cell.height))[i],
               !.currentLevel = frame.currentLevel + 1 ]
    /\ UNCHANGED <<config, rateCalls, decayCalls, levelCalls, density, lastUpdate, updates, velocityCalls, interpCalls, loopVars>>

NextSubdiv ==
    \/ SubdivideCellReturn
    \/ \E i \in 1..2 : SubdivideCellRecurse(i)

SpecSubdiv == InitSubdiv /\ [][NextSubdiv]_vars

Right(c) == Add(c.x, c.width)
Bottom(c) == Add(c.y, c.height)
Area(c) == Mul(c.width, c.height)

Inside(inner, outer) ==
    /\ Ge(inner.x, outer.x)
    /\ Ge(inner.y, outer.y)
    /\ Le(Right(inner), Right(outer))
    /\ Le(Bottom(inner), Bottom(outer))

InteriorsOverlap(a, b) ==
    /\ Lt(a.x, Right(b))
    /\ Lt(b.x, Right(a))
    /\ Lt(a.y, Bottom(b))
    /\ Lt(b.y, Bottom(a))

RECURSIVE SumOfAreas(_)
SumOfAreas(cells) ==
    IF cells = << >> THEN Zero ELSE Add(Area(Head(cells)), SumOfAreas(Tail(cells)))

\* C8: subdivideCell(cell, L) on a rectangle of positive width and height
\* returns exactly 2^L leaves.
C8_LeafCount ==
    (frame.state = "returned" /\ frame.currentLevel = 0)
        => Len(frame.result) = 2 ^ frame.targetLevel

C8_Witness ==
    /\ frame.state = "returned"
    /\ frame.currentLevel = 0
    /\ frame.targetLevel >= 3
    /\ Gt(frame.cell.width, Zero)
    /\ Gt(frame.cell.height, Zero)
    /\ Len(frame.result) = 2 ^ frame.targetLevel

\* C9: the leaves tile the rectangle: each lies inside it, no two have
\* overlapping interiors, and their areas add up to its area.
C9_LeavesTile ==
    frame.state = "returned"
        => /\ \A i \in 1..Len(frame.result) : Inside(frame.result[i], frame.cell)
           /\ \A i \in 1..Len(frame.result), j \in 1..Len(frame.result) :
                  i < j => ~InteriorsOverlap(frame.result[i], frame.result[j])
           /\ SumOfAreas(frame.result) = Area(frame.cell)

C9_Witness ==
    /\ frame.state = "returned"
    /\ frame.currentLevel = 0
    /\ frame.targetLevel >= 3
    /\ \E i \in 1..Len(frame.result) :
           /\ Lt(frame.result[i].width, frame.cell.width)
           /\ Lt(frame.result[i].height, frame.cell.height)
           /\ Gt(frame.result[i].x, frame.cell.x)
           /\ Gt(frame.result[i].y, frame.cell.y)

\* C10: every split is decided by the rectangle being split: wider than high,
\* the children sit side by side with its height and half its width each;
\* otherwise, a square included, they are stacked with its width and half its
\* height each.  An 80x24 rectangle splits into two 40x24 rectangles.
C10_SplitByShape ==
    (frame.state = "returned" /\ frame.split.made)
        => LET cell == frame.cell
               c1 == frame.split.children[1]
               c2 == frame.split.children[2]
           IN  /\ Len(frame.split.children) = 2
               /\ c1.x = cell.x /\ c1.y = cell.y
               /\ IF Gt(cell.width, cell.height)
                  THEN /\ c1.height = cell.height /\ c2.height = cell.height
                       /\ Add(c1.width, c1.width) = cell.width /\ c2.width = c1.width
                       /\ c2.y = cell.y /\ c2.x = Add(cell.x, c1.width)
                  ELSE /\ c1.width = cell.width /\ c2.width = cell.width
                       /\ Add(c1.height, c1.height) = cell.height /\ c2.height = c1.height
                       /\ c2.x = cell.x /\ c2.y = Add(cell.y, c1.height)
               /\ (cell.width = Int2Num(80) /\ cell.height = Int2Num(24))
                      => \A k \in 1..2 :
                             /\ frame.split.children[k].width = Int2Num(40)
                             /\ frame.split.children[k].height = Int2Num(24)

C10_Witness ==
    /\ frame.state = "returned"
    /\ frame.currentLevel >= 1
    /\ frame.split.made
    /\ frame.cell.width = frame.cell.height
    /\ frame.split.direction = "horizontal"
    /\ frame.split.children[2].y = Add(frame.cell.y, Div(frame.cell.height, Two))

DegenerateShapes ==
    { <<0, 24>>, <<80, 0>>, <<0, 0>>, <<-8, 24>>, <<80, -24>>, <<-8, -24>>,
      <<0, -24>>, <<-8, 0>> }

DegenerateCells ==
    { BaseCell([createDefaultConfig EXCEPT !.baseCellWidth = Int2Num(shape[1]),
                                           !.baseCellHeight = Int2Num(shape[2])],
               col, row) :
        shape \in DegenerateShapes, col \in 0..1, row \in 0..1 }

InitDegenerate ==
    /\ config = createDefaultConfig
    /\ rateCalls = {}
    /\ velocityCalls = {}
    /\ interpCalls = {}
    /\ LoopInitial
    /\ decayCalls = {}
    /\ levelCalls = {}
    /\ density = Zero
    /\ lastUpdate = NoUpdate
    /\ updates = 0
    /\ frame \in { [ state |-> "called", cell |-> c, targetLevel |-> l,
                     currentLevel |-> 0, split |-> NoSplit, result |-> << >> ] :
                   c \in DegenerateCells, l \in 0..MaxTargetLevel }

SpecDegenerate == InitDegenerate /\ [][NextSubdiv]_vars

\* C21: a rectangle with width <= 0 or height <= 0 is never split:
\* subdivideCell returns it as its single leaf, also below the target level.
C21_DegenerateIsTerminal ==
    (/\ frame.state = "returned"
     /\ (Le(frame.cell.width, Zero) \/ Le(frame.cell.height, Zero)))
        => (~frame.split.made /\ frame.result = << frame.cell >>)


\* SpecLines: getSubdivisionLines on the drawn base cells.  frame is the call:
\* "called" until it returns, then "returned" with the lines, and with the
\* leaves subdivideCell gives for the same arguments.
InitLines ==
    /\ config = createDefaultConfig
    /\ rateCalls = {}
    /\ velocityCalls = {}
    /\ interpCalls = {}
    /\ LoopInitial
    /\ decayCalls = {}
    /\ levelCalls = {}
    /\ density = Zero
    /\ lastUpdate = NoUpdate
    /\ updates = 0
    /\ frame \in { [ state |-> "called", cell |-> c, targetLevel |-> l,
                     lines |-> << >>, leaves |-> << >> ] :
                   c \in SubdivCells, l \in 0..MaxTargetLevel }

GetSubdivisionLinesReturn ==
    /\ frame.state = "called"
    /\ frame' = [ frame EXCEPT
                    !.state = "returned",
                    !.lines = getSubdivisionLines(frame.cell, frame.targetLevel),
                    !.leaves = subdivideCell(frame.cell, frame.targetLevel, 0) ]
    /\ UNCHANGED <<config, rateCalls, decayCalls, levelCalls, density, lastUpdate, updates, velocityCalls, interpCalls, loopVars>>

NextLines == GetSubdivisionLinesReturn

SpecLines == InitLines /\ [][NextLines]_vars

\* The mid cut of a rectangle, across its longer side (its height on a tie).
MidCut(r) ==
    IF Gt(r.width, r.height)
    THEN [ x1 |-> Add(r.x, Div(r.width, Two)), y1 |-> r.y,
           x2 |-> Add(r.x, Div(r.width, Two)), y2 |-> Bottom(r) ]
    ELSE [ x1 |-> r.x, y1 |-> Add(r.y, Div(r.height, Two)),
           x2 |-> Right(r), y2 |-> Add(r.y, Div(r.height, Two)) ]

\* The rectangles subdivideCell splits on the way from level k - 1 to level k.
SplitAtLevel(cell, k) ==
    LET parents == subdivideCell(cell, k - 1, 0)
    IN  { parents[i] : i \in 1..Len(parents) }

\* C27: for a rectangle of positive size and a target level L,
\* getSubdivisionLines returns one line for every split subdivideCell makes:
\* for each k in 1..L the 2^(k-1) lines tagged k are the full-length mid cuts
\* of the 2^(k-1) rectangles of level k - 1; there are 2^L - 1 lines, none
\* tagged 0, and no line is returned twice.
C27_OneLinePerSplit ==
    frame.state = "returned" =>
        LET lines == frame.lines
            L == frame.targetLevel
            tagged(k) == { i \in 1..Len(lines) : lines[i].level = k }
        IN  /\ Len(lines) = 2 ^ L - 1
            /\ Len(lines) = Len(frame.leaves) - 1
            /\ \A i \in 1..Len(lines) : lines[i].level \in 1..L
            /\ \A i, j \in 1..Len(lines) : lines[i] = lines[j] => i = j
            /\ \A k \in 1..L :
                   /\ Cardinality(tagged(k)) = 2 ^ (k - 1)
                   /\ { [ x1 |-> lines[i].x1, y1 |-> lines[i].y1,
                          x2 |-> lines[i].x2, y2 |-> lines[i].y2 ] : i \in tagged(k) }
                          = { MidCut(r) : r \in SplitAtLevel(frame.cell, k) }
                   /\ Cardinality(SplitAtLevel(frame.cell, k)) = 2 ^ (k - 1)

C27_Witness ==
    /\ frame.state = "returned"
    /\ frame.targetLevel = 3
    /\ Len(frame.lines) = 7
    /\ frame.cell.width = Int2Num(80)
    /\ frame.cell.height = Int2Num(24)
    /\ frame.lines[1].level = 1
    /\ frame.lines[1].x1 = frame.lines[1].x2
    /\ \E i \in 1..7 : frame.lines[i].level = 3 /\ frame.lines[i].y1 = frame.lines[i].y2


\* SpecAspect: subdivideCell followed down to deep levels, on rectangles of
\* chosen shapes.  The invocation under observation keeps the rectangle the
\* outermost call was given (root).
AspectShapes == { <<80, 24>>, <<24, 24>>, <<48, 24>>, <<24, 48>>, <<30, 24>>, <<24, 80>> }

InitAspect ==
    /\ config = createDefaultConfig
    /\ rateCalls = {}
    /\ velocityCalls = {}
    /\ interpCalls = {}
    /\ LoopInitial
    /\ decayCalls = {}
    /\ levelCalls = {}
    /\ density = Zero
    /\ lastUpdate = NoUpdate
    /\ updates = 0
    /\ frame \in { [ state |-> "called",
                     cell |-> BaseCell([createDefaultConfig EXCEPT
                                            !.baseCellWidth = Int2Num(shape[1]),
                                            !.baseCellHeight = Int2Num(shape[2])], 0, 0),
                     root |-> shape,
                     targetLevel |-> l,
                     currentLevel |-> 0, split |-> NoSplit, result |-> << >> ] :
                   shape \in AspectShapes, l \in 0..MaxAspectLevel }

SpecAspect == InitAspect /\ [][NextSubdiv]_vars

\* The rectangle is at most twice as wide as high and at most twice as high
\* as wide.
NearSquare(c) ==
    /\ Le(Num(1, 2), Div(c.width, c.height))
    /\ Le(Div(c.width, c.height), Two)

\* The splits of the 80x24 base cell, for levels 1..8.
SplitSequence ==
    << "vertical", "vertical", "horizontal", "vertical", "horizontal", "vertical",
       "horizontal", "vertical" >>

\* C29: subdivideCell keeps a width/height ratio within [1/2, 2]: from a
\* rectangle in that range every rectangle of every deeper level is in it.
\* The 80x24 base cell is outside the range, its cells of level 2 and deeper
\* are inside, and its splits for levels 1..8 are V, V, H, V, H, V, H, V.
C29_AspectRatioKept ==
    LET rootCell == [width |-> Int2Num(frame.root[1]), height |-> Int2Num(frame.root[2])]
    IN  /\ NearSquare(rootCell)
               => /\ NearSquare(frame.cell)
                  /\ \A i \in 1..Len(frame.result) : NearSquare(frame.result[i])
        /\ frame.root = <<80, 24>>
               => /\ ~NearSquare(rootCell)
                  /\ frame.currentLevel >= 2 => NearSquare(frame.cell)
                  /\ frame.targetLevel >= 2
                         => \A i \in 1..Len(frame.result) : NearSquare(frame.result[i])
                  /\ (frame.state = "returned" /\ frame.split.made
                          /\ frame.currentLevel + 1 \in DOMAIN SplitSequence)
                         => frame.split.direction = SplitSequence[frame.currentLevel + 1]

C29_Witness ==
    /\ frame.root = <<80, 24>>
    /\ frame.state = "returned"
    /\ frame.currentLevel = 7
    /\ frame.targetLevel = 8
    /\ frame.split.made
    /\ frame.split.direction = "vertical"
    /\ frame.cell.width = Int2Num(5)
    /\ frame.cell.height = Int2Num(3)
    /\ frame.result[1].width = Num(5, 2)

---------------------------------------------------------------------------
(* SpecInterp: interpolatePoints between drawn pointer samples *)

\* Pointer samples are whole pixels; the moves are along an axis or along a
\* 3-4-5 triangle, so that Math.sqrt is exact: lengths 0, 10, 50, 100.
StrokeStarts == { Point(Int2Num(0), Int2Num(0)), Point(Int2Num(45), Int2Num(24)) }

StrokeMoves ==
    { <<0, 0>>, <<6, 8>>, <<100, 0>>, <<0, -50>>, <<30, 40>>, <<-60, -80>> }

StepSizes == { Int2Num(20), Int2Num(25), Num(15, 2), Int2Num(100) }

InitInterp ==
    /\ config = createDefaultConfig
    /\ rateCalls = {}
    /\ velocityCalls = {}
    /\ interpCalls = {}
    /\ LoopInitial
    /\ decayCalls = {}
    /\ levelCalls = {}
    /\ density = Zero
    /\ lastUpdate = NoUpdate
    /\ updates = 0
    /\ frame = NoFrame

CallInterpolatePoints(p1, p2, stepSize) ==
    /\ Cardinality(interpCalls) < MaxLoggedCalls
    /\ interpCalls' = interpCalls \cup
           { [ p1 |-> p1, p2 |-> p2, stepSize |-> stepSize,
               returned |-> interpolatePoints(p1, p2, stepSize) ] }
    /\ UNCHANGED <<config, rateCalls, decayCalls, levelCalls, density, lastUpdate, updates,
                   frame, velocityCalls, loopVars>>

NextInterp ==
    \E p1 \in StrokeStarts, mv \in StrokeMoves, s \in StepSizes :
        CallInterpolatePoints(p1,
            Point(Add(p1.x, Int2Num(mv[1])), Add(p1.y, Int2Num(mv[2]))), s)

SpecInterp == InitInterp /\ [][NextInterp]_vars

\* C11: when the distance from p1 to p2 is at least stepSize, the call returns
\* numSteps + 1 points, numSteps being the least whole number of steps of
\* length stepSize that cover the distance (ceil(distance / stepSize)); the
\* i-th point is p1 + (p2 - p1) * i / numSteps, the first is p1 and the last
\* is p2.  From (0,0) to (100,0) with stepSize 20 it returns 6 points.
C11_EvenlySpacedPoints ==
    \A c \in interpCalls :
        Ge(calculateDistance(c.p1, c.p2), c.stepSize) =>
            LET distance == calculateDistance(c.p1, c.p2)
                numSteps == Len(c.returned) - 1
            IN  /\ numSteps >= 1
                /\ Ge(Mul(Int2Num(numSteps), c.stepSize), distance)
                /\ Lt(Mul(Int2Num(numSteps - 1), c.stepSize), distance)
                /\ \A i \in 0..numSteps :
                       /\ Eq(Mul(Sub(c.returned[i + 1].x, c.p1.x), Int2Num(numSteps)),
                             Mul(Sub(c.p2.x, c.p1.x), Int2Num(i)))
                       /\ Eq(Mul(Sub(c.returned[i + 1].y, c.p1.y), Int2Num(numSteps)),
                             Mul(Sub(c.p2.y, c.p1.y), Int2Num(i)))
                /\ c.returned[1] = c.p1
                /\ c.returned[numSteps + 1] = c.p2
                /\ ( /\ c.p1 = Point(Int2Num(0), Int2Num(0))
                     /\ c.p2 = Point(Int2Num(100), Int2Num(0))
                     /\ c.stepSize = Int2Num(20) ) => Len(c.returned) = 6

C11_Witness ==
    \E c \in interpCalls :
        /\ c.p1 = Point(Int2Num(45), Int2Num(24))
        /\ c.p2 = Point(Int2Num(75), Int2Num(64))
        /\ c.stepSize = Int2Num(20)
        /\ Len(c.returned) = 4
        /\ c.returned[2] = Point(Int2Num(55), Num(112, 3))
        /\ c.returned[4] = c.p2

---------------------------------------------------------------------------
(* SpecVelocity: calculateVelocityMultiplier on drawn speeds *)

\* Pointer speeds in px/s.  The velocity estimate is never negative: it is a
\* weighted mean of speeds, decayed through Math.max(0, ...).
PointerSpeeds ==
    { Int2Num(0), Int2Num(250), Int2Num(500), Int2Num(1000), Int2Num(2000) }

\* velocityInfluence: below, at and above 1.0, up to the slider's maximum.
VelocityInfluences == { Num(1, 2), One, Num(3, 2), Int2Num(8), Int2Num(15) }

InitVelocity ==
    /\ config = createDefaultConfig
    /\ rateCalls = {}
    /\ velocityCalls = {}
    /\ interpCalls = {}
    /\ LoopInitial
    /\ decayCalls = {}
    /\ levelCalls = {}
    /\ density = Zero
    /\ lastUpdate = NoUpdate
    /\ updates = 0
    /\ frame = NoFrame

CallCalculateVelocityMultiplier(velocity, velocityInfluence) ==
    /\ Cardinality(velocityCalls) < MaxLoggedCalls
    /\ velocityCalls' = velocityCalls \cup
           { [ velocity |-> velocity, velocityInfluence |-> velocityInfluence,
               returned |-> calculateVelocityMultiplier(velocity, velocityInfluence) ] }
    /\ UNCHANGED <<config, rateCalls, decayCalls, levelCalls, density, lastUpdate, updates,
                   frame, interpCalls, loopVars>>

NextVelocity ==
    \E v \in PointerSpeeds, vi \in VelocityInfluences :
        CallCalculateVelocityMultiplier(v, vi)

SpecVelocity == InitVelocity /\ [][NextVelocity]_vars

---------------------------------------------------------------------------
(* SpecFrames: the mounted component under pointer events and frames *)

\* Milliseconds between a frame and the event before it: a 60 Hz frame, a
\* frame at the cap, and a stall.
FrameIntervalsMs == { 16, 100, 250 }

\* Milliseconds between a move sample and the event before it.
MoveWaitsMs == { 0, 50 }

\* The centre of base cell (0,0), and a point 50 px from the centres of both
\* base cells (a 3-4-5 triangle on either side).
PointerPositions ==
    LET c == getCellCenter(BaseCell(createDefaultConfig, 0, 0))
    IN  { c, Point(Add(c.x, Int2Num(40)), Add(c.y, Int2Num(30))) }

\* The velocity boost is switched off (velocityInfluence at the slider's
\* minimum); the second configuration has a radius that leaves base cell (1,0)
\* out of reach of a pointer on the centre of (0,0).
FrameConfigs ==
    { [createDefaultConfig EXCEPT !.velocityInfluence = One],
      [createDefaultConfig EXCEPT !.velocityInfluence = One,
                                  !.influenceRadius = Int2Num(60)],
      [createDefaultConfig EXCEPT !.velocityInfluence = One,
                                  !.influenceRadius = Int2Num(80)] }

InitFrames ==
    /\ config \in FrameConfigs
    /\ rateCalls = {}
    /\ velocityCalls = {}
    /\ interpCalls = {}
    /\ LoopInitial
    /\ decayCalls = {}
    /\ levelCalls = {}
    /\ density = Zero
    /\ lastUpdate = NoUpdate
    /\ updates = 0
    /\ frame = NoFrame

NextFrames ==
    /\ steps < MaxLoopEvents
    /\ \/ \E e \in FrameIntervalsMs : Render(e)
       \/ \E pos \in PointerPositions, w \in MoveWaitsMs : HandleMouseMove(pos, w)
       \/ HandleMouseLeave

SpecFrames == InitFrames /\ [][NextFrames]_vars

AbsNum(a) == IF Lt(a, Zero) THEN Neg(a) ELSE a

\* The mean increase rate the last frame's contact points give a base cell.
FrameIncreaseRate(cell) ==
    IF Len(lastFrame.contact) = 0 THEN Zero
    ELSE Div(SumOfNums([ i \in 1..Len(lastFrame.contact) |->
                 calculateIncreaseRate(
                     calculateDistance(lastFrame.contact[i], getCellCenter(cell)),
                     config, lastFrame.velocity) ]),
             Int2Num(Len(lastFrame.contact)))

\* C16: the deltaTime a frame passes to updateCellDensity is the elapsed
\* seconds capped at 0.1, whatever the time since the previous frame, so one
\* frame moves a cell's density by at most 0.1 times its per-second rate (its
\* increase rate, or its decay rate at full ramp, whichever is larger).
C16_DeltaTimeCapped ==
    lastFrame.made =>
        /\ lastFrame.deltaTime =
               (IF Lt(lastFrame.elapsed, Num(1, 10)) THEN lastFrame.elapsed ELSE Num(1, 10))
        /\ \A i \in 1..Len(getBaseCells(config)) :
               LET cell == getBaseCells(config)[i]
                   before == readCellState(lastFrame.before, cellKey(cell)).density
                   after == cellDensities[cellKey(cell)].density
                   rate == MathMax(FrameIncreaseRate(cell),
                                   Mul(config.decayRate, config.decayMultiplier))
               IN  Le(AbsNum(Sub(after, before)), Mul(Num(1, 10), rate))

C16_Witness ==
    /\ lastFrame.made
    /\ Gt(lastFrame.elapsed, Num(1, 10))
    /\ lastFrame.deltaTime = Num(1, 10)
    /\ \E i \in 1..Len(getBaseCells(config)) :
           LET cell == getBaseCells(config)[i]
               before == readCellState(lastFrame.before, cellKey(cell)).density
               after == cellDensities[cellKey(cell)].density
           IN  /\ Gt(FrameIncreaseRate(cell), Zero)
               /\ Gt(before, Zero)
               /\ Sub(after, before) = Mul(Num(1, 10), FrameIncreaseRate(cell))


\* C22: a pointer-leave sets the velocity estimate to 0 at once, whatever it
\* was, and discards the previous pointer sample, so that the first move
\* after it is not differenced against a position from before the leave: that
\* move leaves the estimate at 0.
C22_LeaveResetsVelocity ==
    /\ lastEvent.kind = "leave"
           => (velocityState = Zero /\ lastMousePos = NoPoint /\ mousePos = NoPoint)
    /\ (lastEvent.kind = "move" /\ lastEvent.previousPos = NoPoint)
           => (lastEvent.previousVelocity = Zero /\ velocityState = Zero)

C22_Witness ==
    /\ lastEvent.kind = "leave"
    /\ Gt(lastEvent.previousVelocity, Zero)
    /\ lastEvent.previousPos # NoPoint
    /\ velocityState = Zero
    /\ lastMousePos = NoPoint


\* The cell is within reach of a contact point of the last frame: it received
\* a non-zero increase contribution.
PaintedInLastFrame(cell) ==
    /\ Gt(Mul(config.increaseRate, config.increaseMultiplier), Zero)
    /\ \E i \in 1..Len(lastFrame.contact) :
           Lt(calculateDistance(lastFrame.contact[i], getCellCenter(cell)),
              config.influenceRadius)

FrameVelocityAsStated ==
    lastFrame.made =>
        /\ Ge(lastFrame.velocityAfter, Zero)
        /\ lastFrame.velocityAfter =
               IF Gt(Sub(lastFrame.currentTime, lastFrame.lastMoveTime), Int2Num(50))
               THEN Mul(lastFrame.velocity, Num(7, 10))
               ELSE lastFrame.velocity

\* Pixels per second between the last move sample and the one before it.
SampledSpeed ==
    Div(calculateDistance(lastEvent.newPos, lastEvent.previousPos),
        Div(Sub(lastEvent.time, lastEvent.previousTime), Int2Num(1000)))

\* C24 as the specification states it: a frame more than 50 ms after the last
\* move sample multiplies the estimate by 0.7, a frame within 50 ms leaves it,
\* and every move sample with a previous sample makes it
\* 0.7 * previous estimate + 0.3 * (distance / deltaSeconds).
C24_MoveAlwaysDivides ==
    /\ FrameVelocityAsStated
    /\ (lastEvent.kind = "move" /\ lastEvent.previousPos # NoPoint)
           => lastEvent.velocity =
                  Add(Mul(lastEvent.previousVelocity, Num(7, 10)),
                      Mul(SampledSpeed, Num(3, 10)))

\* C24: a frame more than 50 ms after the last move sample multiplies the
\* velocity estimate by 0.7, never below 0, and a frame within 50 ms leaves
\* it; a move sample with a previous sample taken earlier makes it
\* 0.7 * previous estimate + 0.3 * (distance / deltaSeconds), and a move
\* sample with the timestamp of the previous one makes it 0.7 * previous
\* estimate.
C24_VelocityEstimate ==
    /\ FrameVelocityAsStated
    /\ (lastEvent.kind = "move" /\ lastEvent.previousPos # NoPoint)
           => lastEvent.velocity =
                  Add(Mul(lastEvent.previousVelocity, Num(7, 10)),
                      IF Gt(lastEvent.time, lastEvent.previousTime)
                      THEN Mul(SampledSpeed, Num(3, 10))
                      ELSE Zero)

C24_Witness ==
    /\ lastFrame.made
    /\ Gt(lastFrame.velocity, Zero)
    /\ lastFrame.velocityAfter = Mul(lastFrame.velocity, Num(7, 10))
    /\ lastEvent.kind = "move"
    /\ lastEvent.previousPos # NoPoint
    /\ lastEvent.time = lastEvent.previousTime
    /\ Gt(lastEvent.previousVelocity, Zero)
    /\ lastEvent.velocity = Mul(lastEvent.previousVelocity, Num(7, 10))

---------------------------------------------------------------------------
(* SpecIdle: the frames after the pointer has left the canvas.  The run      *)
(* starts when the pointer leaves, 4 s after the mount: base cell (0,0) was  *)
(* painted up to density 1 until that moment, base cell (1,0) less.          *)

\* Milliseconds between two frames.  Within a run the frames come at a steady
\* rate: 20, 10 or 4 per second, the last one beyond the deltaTime cap.
IdleIntervalsMs == { 50, 100, 250 }

IdleConfigs ==
    { createDefaultConfig,
      [createDefaultConfig EXCEPT !.holdDuration = Num(1, 2), !.decayMultiplier = Two] }

InitIdle ==
    /\ config \in IdleConfigs
    /\ rateCalls = {}
    /\ velocityCalls = {}
    /\ interpCalls = {}
    /\ decayCalls = {}
    /\ levelCalls = {}
    /\ density = Zero
    /\ lastUpdate = NoUpdate
    /\ updates = 0
    /\ frame = NoFrame
    /\ MountedInitial
    /\ now = 4000
    /\ lastFrameTime = Int2Num(4000)
    /\ lastMouseMoveTime = Int2Num(4000)
    /\ lastMousePos = NoPoint
    /\ mousePos = NoPoint
    /\ velocityState = Zero
    /\ cellDensities \in
           { [ key \in { <<0, 0>>, <<1, 0>> } |->
                 IF key = <<0, 0>>
                 THEN [density |-> One, lastPaintedTime |-> Int2Num(4000)]
                 ELSE other ] :
             other \in { [density |-> Num(1, 2), lastPaintedTime |-> Int2Num(4000)],
                         [density |-> Num(1, 4), lastPaintedTime |-> Int2Num(3000)] } }
    /\ lastFrame = NoFrameYet
    /\ steps = 0

\* The frame requested by the previous one is due e ms after it.
FrameDue(e) ==
    /\ lastFrame.made => lastFrame.elapsed = Num(e, 1000)
    /\ now + e <= IdleClockLimitMs

NextIdle == \E e \in IdleIntervalsMs : FrameDue(e) /\ Render(e)

SpecIdle == InitIdle /\ [][NextIdle]_vars

\* The frame callback requests the next frame before it returns, so frames
\* keep coming while the component is mounted: a frame that is due is run,
\* and the clock moves on to its timestamp.
SpecIdleFair ==
    SpecIdle /\ WF_now(\E e \in IdleIntervalsMs : FrameDue(e) /\ now' = now + e)

AllDensitiesZero == \A key \in DOMAIN cellDensities : cellDensities[key].density = Zero

\* C18: with no pointer contact, decayRate * decayMultiplier > 0 and
\* decayAcceleration > 0, no frame raises a cell's density, and with frames
\* that keep coming every density reaches 0 and stays 0.
C18_DecaysToZero ==
    /\ [][ \A key \in DOMAIN cellDensities :
               Le(cellDensities'[key].density, cellDensities[key].density) ]_vars
    /\ <>[]AllDensitiesZero

C18_Witness ==
    /\ lastFrame.made
    /\ AllDensitiesZero
    /\ \E key \in DOMAIN cellDensities :
           /\ Gt(lastFrame.before[key].density, Zero)
           /\ Gt(Div(Sub(lastFrame.currentTime, lastFrame.before[key].lastPaintedTime),
                     Int2Num(1000)),
                 config.holdDuration)

(***************************************************************************)
(* The pointer resting on a cell: the frames after the pointer has come to *)
(* rest on the centre of base cell (0,0) of a freshly mounted component.    *)
(***************************************************************************)

\* Milliseconds between two frames, mixed freely within a run; the last one
\* is beyond the deltaTime cap.
HoverIntervalsMs == { 50, 100, 250 }

HoverConfigs ==
    { [createDefaultConfig EXCEPT !.increaseMultiplier = One],
      [createDefaultConfig EXCEPT !.increaseMultiplier = One,
                                  !.holdDuration = Num(1, 2),
                                  !.influenceRadius = Int2Num(60)] }

HoverPoint == getCellCenter(getBaseCells(createDefaultConfig)[1])

InitHover ==
    /\ config \in HoverConfigs
    /\ rateCalls = {}
    /\ velocityCalls = {}
    /\ interpCalls = {}
    /\ decayCalls = {}
    /\ levelCalls = {}
    /\ density = Zero
    /\ lastUpdate = NoUpdate
    /\ updates = 0
    /\ frame = NoFrame
    /\ MountedInitial
    /\ now = 0
    /\ lastFrameTime = Zero
    /\ lastMouseMoveTime = Zero
    /\ lastMousePos = HoverPoint
    /\ mousePos = HoverPoint
    /\ velocityState = Zero
    /\ cellDensities = << >>
    /\ lastFrame = NoFrameYet
    /\ steps = 0

NextHover ==
    \E e \in HoverIntervalsMs :
        /\ now + e <= HoverClockLimitMs
        /\ Render(e)

SpecHover == InitHover /\ [][NextHover]_vars

\* C19: with the pointer at rest on the cell's centre (distance 0, velocity
\* 0), increaseRate 0.4, increaseMultiplier 1 and the hold window active,
\* the cell that started at 0 has density min(1, 0.4 * T) after frames whose
\* capped deltaTimes sum to T, however T is split into frames; it is below 1
\* before T = 2.5 s and 1 from then on.
C19_FrameRateIndependent ==
    lastFrame.made =>
        /\ lastFrame.velocity = Zero
        /\ calculateDistance(lastFrame.contact[1], getCellCenter(getBaseCells(config)[1]))
               = Zero
        /\ cellDensities[<<0, 0>>].density
               = MathMin(One, Mul(Num(2, 5), lastFrame.cappedTotal))
        /\ cellDensities[<<0, 0>>].density = One
               <=> Ge(lastFrame.cappedTotal, Num(5, 2))

C19_Witness ==
    /\ lastFrame.made
    /\ lastFrame.cappedTotal = Num(5, 2)
    /\ lastFrame.elapsed = Num(1, 20)
    /\ now >= 2650
    /\ cellDensities[<<0, 0>>].density = One
    /\ Lt(lastFrame.before[<<0, 0>>].density, One)

(***************************************************************************)
(* SpecSwap: the render callback executed statement by statement, between  *)
(* pointer events and up to the teardown of the view.  The callback runs   *)
(* to completion: no handler and no cleanup runs inside it.                 *)
(***************************************************************************)

SwapIntervalsMs == { 16, 250 }

NextSwap ==
    \/ steps < MaxLoopEvents /\ \E e \in SwapIntervalsMs : RenderBegin(e)
    \/ RenderCell
    \/ RenderEnd
    \/ /\ steps < MaxLoopEvents
       /\ ~inFrame.running
       /\ \/ \E pos \in PointerPositions : HandleMouseMove(pos, 50)
          \/ HandleMouseLeave
          \/ Unmount

SpecSwap == InitFrames /\ [][NextSwap]_vars

\* C25: while a frame computes its updates the published map is the map it
\* started from, unchanged: the updates go into a copy.  The published map
\* is replaced once, at the end of the callback, by the copy in which every
\* base cell has been updated; a map with only some cells updated is never
\* published, also not when the view is torn down.
C25_AtomicSwap ==
    /\ inFrame.running
           => /\ cellDensities = inFrame.published
              /\ \A k \in 1..Len(inFrame.cells) :
                     LET key == cellKey(inFrame.cells[k])
                     IN  (k > inFrame.index /\ key \in DOMAIN inFrame.newDensities)
                             => inFrame.newDensities[key] = inFrame.published[key]
    /\ (~inFrame.running /\ lastFrame.made)
           => cellDensities =
                  frameDensities(lastFrame.before, getBaseCells(config), lastFrame.contact,
                                 lastFrame.deltaTime, config, lastFrame.velocity,
                                 lastFrame.currentTime)
    /\ (~inFrame.running /\ ~lastFrame.made) => cellDensities = << >>

C25_Witness ==
    /\ inFrame.running
    /\ inFrame.index = 1
    /\ Len(inFrame.cells) = 2
    /\ lastFrame.made
    /\ inFrame.newDensities[<<0, 0>>] # inFrame.published[<<0, 0>>]
    /\ inFrame.newDensities[<<1, 0>>] = inFrame.published[<<1, 0>>]
    /\ cellDensities = inFrame.published

(***************************************************************************)
(* SpecLoop: the life of the mounted component: frames, pointer events,    *)
(* resizes of the viewport, config changes and the teardown of the view.   *)
(***************************************************************************)

LoopIntervalsMs == { 16, 250 }

\* Viewports with room for one, two and three base cells side by side.
ViewportSizes ==
    { [width |-> Int2Num(w), height |-> Int2Num(48)] : w \in { 125, 205, 285 } }

LoopPositions == { getCellCenter(BaseCell(createDefaultConfig, 1, 0)) }

NextLoop ==
    /\ steps < MaxLoopEvents
    /\ \/ \E e \in LoopIntervalsMs : Render(e)
       \/ \E pos \in LoopPositions : HandleMouseMove(pos, 50)
       \/ HandleMouseLeave
       \/ \E size \in ViewportSizes : HandleResize(size)
       \/ \E cfg \in FrameConfigs : HandleConfigChange(cfg)
       \/ Unmount

SpecLoop == InitFrames /\ [][NextLoop]_vars

\* C26: once the view is torn down no frame request is pending and no frame
\* callback runs any more: the last frame and the density field stay what
\* they were at the teardown.
C26_NoFrameAfterTeardown ==
    ~mounted =>
        /\ animationFrame.pending = {}
        /\ lastEvent.kind = "unmount"
        /\ lastFrame = lastEvent.frame
        /\ cellDensities = lastEvent.densities

C26_Witness ==
    /\ ~mounted
    /\ lastEvent.kind = "unmount"
    /\ lastEvent.cancelled # {}
    /\ lastFrame.made
    /\ \E key \in DOMAIN cellDensities : Gt(cellDensities[key].density, Zero)

\* C28: the key set of the density map only grows.  No step of the component
\* removes an entry; a frame adds the entries of the base cells in the
\* viewport that have none yet, and keeps every other entry with its value,
\* so the entry of a cell that has left the viewport stays as it was.
C28_KeySetOnlyGrows ==
    /\ [][ /\ DOMAIN cellDensities \subseteq DOMAIN cellDensities'
           /\ lastFrame' = lastFrame => cellDensities' = cellDensities ]_vars
    /\ [](lastFrame.made =>
             /\ DOMAIN cellDensities = (DOMAIN lastFrame.before) \cup lastFrame.keys
             /\ \A key \in (DOMAIN lastFrame.before) \ lastFrame.keys :
                    cellDensities[key] = lastFrame.before[key])
    /\ [](~lastFrame.made => cellDensities = << >>)

C28_Witness ==
    /\ lastFrame.made
    /\ lastFrame.keys = { <<0, 0>> }
    /\ <<1, 0>> \in DOMAIN cellDensities
    /\ <<1, 0>> \in DOMAIN lastFrame.before
    /\ Gt(cellDensities[<<1, 0>>].density, Zero)
    /\ canvasSize.width = Int2Num(125)

\* C30: at every moment at most one frame callback is pending, and while the
\* view is mounted exactly one is: the one whose id animationFrameRef holds.
\* Every re-run of the render effect and every frame replaces the pending
\* request by a new one, so each frame callback that runs is the only one
\* pending at that time.
C30_OneFramePending ==
    /\ [](Cardinality(animationFrame.pending) <= 1)
    /\ [](mounted => animationFrame.pending = { animationFrame.ref })
    /\ [][ animationFrame' # animationFrame
              => animationFrame.pending \cap animationFrame'.pending = {} ]_vars
    /\ [][ lastFrame' # lastFrame
              => (animationFrame.pending = { lastFrame'.id }
                  /\ lastFrame'.id \notin animationFrame'.pending) ]_vars

C30_Witness ==
    /\ mounted
    /\ lastFrame.made
    /\ lastEvent.kind = "resize"
    /\ animationFrame.pending = { animationFrame.ref }
    /\ animationFrame.ref > lastFrame.id + 2
    /\ steps = MaxLoopEvents

=============================================================================
